---------------------------- MODULE Spec2Model ----------------------------
(***************************************************************************)
(* State-machine model of the Infinite Canvas server (src/server/index.js):*)
(* the tile_strokes table, the registry of peer sessions, the WebSocket    *)
(* message / open / close handlers and the HTTP endpoints.                 *)
(*                                                                         *)
(* Each handler is one action.  A message handler runs to completion with  *)
(* respect to other events: its only awaits are on readTileStrokes, an     *)
(* async function with a synchronous body, so every continuation is a      *)
(* microtask that runs before the next socket or HTTP event is taken.      *)
(***************************************************************************)
EXTENDS Integers, Sequences, FiniteSets, TLC

VARIABLES
    rows,       \* table tile_strokes, in rowid (insertion) order
    now,        \* the value Date.now() returns
    uuids,      \* how many crypto.randomUUID() values have been drawn
    sess,       \* per connection: whether it is open, and its ws.data
    clients,    \* the Map `clients`: sequence of [id, ws] in insertion order
    sent,       \* per connection, the frames passed to ws.send by the last handler
    resp,       \* the response of the last HTTP request
    last,       \* what the last handler was and what it was given (history)
    worker,     \* the tile worker of a page: its caches, promises and requests
    page        \* the page's stroke sender: wsReady, sendStroke's queue and timer

\* the variables of the server
serverVars == <<rows, now, uuids, sess, clients, sent, resp, last>>

vars == <<rows, now, uuids, sess, clients, sent, resp, last, worker, page>>

-----------------------------------------------------------------------------
(* Program constants *)

TILE_SIZE == 1024
Z == 0
MAX_DB_SIZE_BYTES == 1073741824
PAGE_SIZE == 4096
MAX_BATCH_WS == 1000
MAX_BATCH_HTTP == 500

(* Bounds of the model *)

NumSessions == 2        \* connections that may be opened
MaxClock == 2           \* Date.now() ranges over 1..MaxClock
MaxUuid == 2            \* crypto.randomUUID() values available
MaxRows == 14           \* an ingest is taken only while it keeps Len(rows) <= MaxRows
CodecMaxRows == 4       \* rows the codec and status specifications let the table grow to
OldRowCount == 11       \* rows of the full table the eviction specification starts from
EvictNewRows == 3       \* rows the eviction specification lets strokes add to it
StoreMaxRows == 3       \* rows the store specification lets the table grow to
ChanMaxRows == 1        \* rows the channel specification lets strokes add to
QueryMaxRows == 2       \* rows the query specification lets strokes add to
BigBlobPages == 150000  \* pages taken by a row whose gzip payload is large

Sessions == 1..NumSessions

-----------------------------------------------------------------------------
(* JavaScript values.  A number is Num(n) or NaN; a field that is absent   *)
(* is Undef; JSON null is Null.                                             *)

Num(n) == [num |-> n]
NaN == [nan |-> TRUE]
Undef == [undef |-> TRUE]
Null == [null |-> TRUE]

IsNum(v) == "num" \in DOMAIN v

\* Number(v) for the values above: Number(undefined) is NaN, Number(null) is 0.
ToNumber(v) ==
    IF IsNum(v) THEN v
    ELSE IF v = Null THEN Num(0)
    ELSE NaN

\* Number.isFinite(v)
IsFinite(v) == IsNum(v)

\* a || b for a number-valued a: 0 and NaN are falsy.
NumOr(a, b) == IF IsNum(a) /\ a.num # 0 THEN a ELSE b

\* a || b for a string-valued a: the empty string (and a missing field, which
\* the inputs write as "") is falsy.
StrOr(a, b) == IF a # "" THEN a ELSE b

Min(a, b) == IF a < b THEN a ELSE b
Max(a, b) == IF a > b THEN a ELSE b

clamp(n, a, b) == Max(a, Min(b, n))

\* crypto.randomUUID(): the k-th value drawn; no two draws are equal.
UuidPool == <<"g1", "g2", "g3", "g4", "g5", "g6">>
RandomUUID(k) == UuidPool[k]


-----------------------------------------------------------------------------
(* Strokes *)

\* The canonical stroke the /api/stroke and the channel handlers build from the
\* client's fields.  idNew is the UUID to use when the client gave no id.
CanonPoint(p) ==
    [x |-> ToNumber(p.x), y |-> ToNumber(p.y), p |-> ToNumber(NumOr(p.p, Num(0)))]

CanonSize(raw) == clamp(NumOr(ToNumber(raw.size), Num(12)).num, 1, 128)

CanonOpacity(raw) == clamp(NumOr(ToNumber(raw.opacity), Num(1)).num, 0, 1)

CanonPoints(raw) == [i \in DOMAIN raw.points |-> CanonPoint(raw.points[i])]

\* HttpCanonStroke that keeps a t the client supplies.
HttpCanonStroke_ClientT(raw, idNew, t) ==
    [id |-> StrOr(raw.id, idNew), userId |-> raw.userId,
     color |-> StrOr(raw.color, "#000000"),
     size |-> CanonSize(raw), opacity |-> CanonOpacity(raw),
     points |-> CanonPoints(raw),
     z |-> ToNumber(IF raw.z \in {Undef, Null} THEN Num(Z) ELSE raw.z),
     t |-> NumOr(raw.t, Num(t)).num, erase |-> raw.erase]

\* line 155: the stroke of POST /api/stroke (z is the client's, userId defaults
\* to '', t is Date.now() whatever the body says)
HttpCanonStroke(raw, idNew, t) ==
    [id |-> StrOr(raw.id, idNew), userId |-> raw.userId,
     color |-> StrOr(raw.color, "#000000"),
     size |-> CanonSize(raw), opacity |-> CanonOpacity(raw),
     points |-> CanonPoints(raw),
     z |-> ToNumber(IF raw.z \in {Undef, Null} THEN Num(Z) ELSE raw.z),
     t |-> t, erase |-> raw.erase]

\* line 222: the stroke of a channel stroke frame (z is Z, userId defaults to
\* the session's id)
WsCanonStroke(raw, idNew, wsId, t) ==
    [id |-> StrOr(raw.id, idNew), userId |-> StrOr(raw.userId, StrOr(wsId, "")),
     color |-> StrOr(raw.color, "#000"),
     size |-> CanonSize(raw), opacity |-> CanonOpacity(raw),
     points |-> CanonPoints(raw),
     z |-> Num(Z), t |-> t, erase |-> raw.erase]

\* JSON.stringify of a number: NaN is written as null.
JsonNumber(v) == IF IsNum(v) THEN v ELSE Null

\* What JSON.parse(JSON.stringify(stroke)) yields; gzip and gunzip are inverse.
JsonOfStroke(stroke) ==
    [stroke EXCEPT
        !.points = [i \in DOMAIN stroke.points |->
                      [x |-> JsonNumber(stroke.points[i].x),
                       y |-> JsonNumber(stroke.points[i].y),
                       p |-> JsonNumber(stroke.points[i].p)]],
        !.z = JsonNumber(stroke.z)]

-----------------------------------------------------------------------------
(* Tile math *)

SetMin(S) == CHOOSE m \in S : \A k \in S : m <= k
SetMax(S) == CHOOSE m \in S : \A k \in S : m >= k

\* The points bboxOfPoints does not skip.
FinitePoints(pts) ==
    {i \in DOMAIN pts : IsFinite(ToNumber(pts[i].x)) /\ IsFinite(ToNumber(pts[i].y))}

NoBox == [none |-> TRUE]

bboxOfPoints(pts) ==
    LET F == FinitePoints(pts) IN
    IF F = {} THEN NoBox
    ELSE [minX |-> SetMin({ToNumber(pts[i].x).num : i \in F}),
          minY |-> SetMin({ToNumber(pts[i].y).num : i \in F}),
          maxX |-> SetMax({ToNumber(pts[i].x).num : i \in F}),
          maxY |-> SetMax({ToNumber(pts[i].y).num : i \in F})]

\* Math.floor(a / TILE_SIZE): \div rounds towards minus infinity.
FloorDiv(a, b) == a \div b

Padding(stroke) == clamp(NumOr(Num(stroke.size), Num(12)).num, 1, 128) * 2

\* StrokeTiles with the max side computed without the -1.
StrokeTiles_NoMinusOne(stroke) ==
    LET bb == bboxOfPoints(stroke.points) IN
    IF bb = NoBox THEN << >>
    ELSE
      LET padding == Padding(stroke)
          tx0 == FloorDiv(bb.minX - padding, TILE_SIZE)
          ty0 == FloorDiv(bb.minY - padding, TILE_SIZE)
          tx1 == FloorDiv(bb.maxX + padding, TILE_SIZE)
          ty1 == FloorDiv(bb.maxY + padding, TILE_SIZE)
          w == tx1 - tx0 + 1
          h == ty1 - ty0 + 1
      IN [k \in 1..(w * h) |->
            [tx |-> tx0 + ((k - 1) % w), ty |-> ty0 + ((k - 1) \div w)]]

\* The list `tiles` of appendStrokeToTiles: ty outer, tx inner.
StrokeTiles(stroke) ==
    LET bb == bboxOfPoints(stroke.points) IN
    IF bb = NoBox THEN << >>
    ELSE
      LET padding == Padding(stroke)
          tx0 == FloorDiv(bb.minX - padding, TILE_SIZE)
          ty0 == FloorDiv(bb.minY - padding, TILE_SIZE)
          tx1 == FloorDiv(bb.maxX + padding - 1, TILE_SIZE)
          ty1 == FloorDiv(bb.maxY + padding - 1, TILE_SIZE)
          w == tx1 - tx0 + 1
          h == ty1 - ty0 + 1
      IN IF w <= 0 \/ h <= 0 THEN << >>
         ELSE [k \in 1..(w * h) |->
                 [tx |-> tx0 + ((k - 1) % w), ty |-> ty0 + ((k - 1) \div w)]]

-----------------------------------------------------------------------------
(* The store *)

RECURSIVE SumPages(_)
SumPages(rs) == IF rs = << >> THEN 0 ELSE Head(rs).pages + SumPages(Tail(rs))

\* getDbSizeStmt: page_count; one page holds the schema.
DbPageCount(rs) == 1 + SumPages(rs)

\* currentSize >= MAX_DB_SIZE_BYTES, with currentSize = page_count * page_size;
\* compared in pages (MAX_DB_SIZE_BYTES is a multiple of PAGE_SIZE).
DbAtLimit(rs) == DbPageCount(rs) >= MAX_DB_SIZE_BYTES \div PAGE_SIZE

\* The subsequence of rs at the indices in keep.
RECURSIVE KeepRows(_, _, _)
KeepRows(rs, keep, i) ==
    IF i > Len(rs) THEN << >>
    ELSE (IF i \in keep THEN <<rs[i]>> ELSE << >>) \o KeepRows(rs, keep, i + 1)

\* OldestRowSets without the ORDER BY: the first n rowids.
OldestRowSets_ByRowid(rs, n) == {1..Min(n, Len(rs))}

\* deleteOldestStrokesStmt: the sets of rowids `SELECT rowid ... ORDER BY t ASC
\* LIMIT n` may return; rows of equal t come in an order SQL leaves open.
OldestRowSets(rs, n) ==
    LET m == Min(n, Len(rs)) IN
    {D \in SUBSET (1..Len(rs)) :
        /\ Cardinality(D) = m
        /\ \A i \in D : \A j \in (1..Len(rs)) \ D : rs[i].t <= rs[j].t}

\* strokesToDelete: Math.max(1, Math.floor(totalStrokes * 0.1))
StrokesToDelete(totalStrokes) == Max(1, totalStrokes \div 10)

\* enforceDbSizeLimit: the tables it may leave (VACUUM keeps the rows' order).
enforceDbSizeLimit(rs) ==
    IF DbAtLimit(rs) /\ Len(rs) > 0
    THEN {KeepRows(rs, (1..Len(rs)) \ D, 1) : D \in OldestRowSets(rs, StrokesToDelete(Len(rs)))}
    ELSE {rs}

\* InsertRows that writes the first tile's row only.
InsertRows_FirstTileOnly(stroke, tiles, clock, pages) ==
    IF tiles = << >> THEN << >>
    ELSE <<[z |-> stroke.z.num, tx |-> tiles[1].tx, ty |-> tiles[1].ty, t |-> stroke.t,
            id |-> stroke.id, json |-> JsonOfStroke(stroke), pages |-> pages]>>

\* txInsert: one row per tile, all with the same zVal, tVal, idVal and jsonBuf.
\* pages is the space one row takes, which depends on the gzip length.
InsertRows(stroke, tiles, clock, pages) ==
    LET zVal == stroke.z.num
        tVal == NumOr(Num(stroke.t), Num(clock)).num
        idVal == StrOr(stroke.id, "")
        jsonBuf == JsonOfStroke(stroke)
    IN [k \in DOMAIN tiles |->
          [z |-> zVal, tx |-> tiles[k].tx, ty |-> tiles[k].ty, t |-> tVal,
           id |-> idVal, json |-> jsonBuf, pages |-> pages]]

\* Whether txInsert throws: the engine fails (dbOk is false), or zVal is NaN,
\* which SQLite binds as NULL against the NOT NULL column.  The transaction
\* is then rolled back.
InsertFails(stroke, dbOk) == ~dbOk \/ ~IsNum(stroke.z)

\* appendStrokeToTiles that replaces the rows of the same id (INSERT OR
\* REPLACE on the id).
appendStrokeToTiles_Replace(rs, stroke, clock, pages, dbOk) ==
    LET tiles == StrokeTiles(stroke) IN
    IF bboxOfPoints(stroke.points) = NoBox
    THEN {[rows |-> rs, tiles |-> << >>, evicted |-> 0]}
    ELSE {[rows |-> IF InsertFails(stroke, dbOk) THEN kept
                    ELSE SelectSeq(kept, LAMBDA r : r.id # stroke.id)
                            \o InsertRows(stroke, tiles, clock, pages),
           tiles |-> tiles,
           evicted |-> Len(rs) - Len(kept)] : kept \in enforceDbSizeLimit(rs)}

\* appendStrokeToTiles that runs the size check before it looks at the points.
appendStrokeToTiles_CheckFirst(rs, stroke, clock, pages, dbOk) ==
    LET tiles == StrokeTiles(stroke) IN
    {[rows |-> IF InsertFails(stroke, dbOk) \/ bboxOfPoints(stroke.points) = NoBox
               THEN kept
               ELSE kept \o InsertRows(stroke, tiles, clock, pages),
      tiles |-> tiles,
      evicted |-> Len(rs) - Len(kept)] : kept \in enforceDbSizeLimit(rs)}

\* appendStrokeToTiles: its possible outcomes, each the table it leaves, the
\* list of tiles it returns and (for the record) how many rows the size check
\* deleted.  No finite point: nothing is done, not even the size check.
appendStrokeToTiles(rs, stroke, clock, pages, dbOk) ==
    LET tiles == StrokeTiles(stroke) IN
    IF bboxOfPoints(stroke.points) = NoBox
    THEN {[rows |-> rs, tiles |-> << >>, evicted |-> 0]}
    ELSE {[rows |-> IF InsertFails(stroke, dbOk) THEN kept
                    ELSE kept \o InsertRows(stroke, tiles, clock, pages),
           tiles |-> tiles,
           evicted |-> Len(rs) - Len(kept)] : kept \in enforceDbSizeLimit(rs)}

\* InsertByT that puts a row before the rows of equal t.
RECURSIVE InsertByT_TiesFirst(_, _)
InsertByT_TiesFirst(sorted, r) ==
    IF sorted = << >> THEN <<r>>
    ELSE IF Head(sorted).t < r.t
      THEN <<Head(sorted)>> \o InsertByT_TiesFirst(Tail(sorted), r)
    ELSE <<r>> \o sorted

\* ORDER BY t ASC over the idx_tile index: equal t in rowid order.
RECURSIVE InsertByT(_, _)
InsertByT(sorted, r) ==
    IF sorted = << >> THEN <<r>>
    ELSE IF Head(sorted).t <= r.t THEN <<Head(sorted)>> \o InsertByT(Tail(sorted), r)
    ELSE <<r>> \o sorted

RECURSIVE OrderByT(_)
OrderByT(rs) ==
    IF rs = << >> THEN << >>
    ELSE InsertByT(OrderByT(SubSeq(rs, 1, Len(rs) - 1)), rs[Len(rs)])

\* selectTileSince with t >= since in place of t > since.
selectTileSince_Inclusive(rs, z, tx, ty, since) ==
    OrderByT(SelectSeq(rs, LAMBDA r : r.z = z /\ r.tx = tx /\ r.ty = ty /\ r.t >= since))

\* selectTileAllStmt and selectTileSinceStmt: the rows returned.
selectTileAll(rs, z, tx, ty) ==
    OrderByT(SelectSeq(rs, LAMBDA r : r.z = z /\ r.tx = tx /\ r.ty = ty))

selectTileSince(rs, z, tx, ty, since) ==
    OrderByT(SelectSeq(rs, LAMBDA r : r.z = z /\ r.tx = tx /\ r.ty = ty /\ r.t > since))

\* sinceTs when the caller passes none (undefined)
NoSince == [none |-> TRUE]

\* readTileStrokes: the parsed payload of every row returned.  z and sinceTs
\* are numbers or NaN; SQLite binds NaN as NULL, and no row has z = NULL or
\* t > NULL.
readTileStrokes(rs, z, tx, ty, sinceTs) ==
    LET got == IF ~IsNum(z) THEN << >>
               ELSE IF sinceTs = NoSince THEN selectTileAll(rs, z.num, tx, ty)
               ELSE IF ~IsNum(ToNumber(sinceTs)) THEN << >>
               ELSE selectTileSince(rs, z.num, tx, ty, ToNumber(sinceTs).num)
    IN [i \in DOMAIN got |-> got[i].json]

-----------------------------------------------------------------------------
(* Sessions, the registry and the frames the server sends *)

\* ws.data after open
NoData == [role |-> "null"]

\* ws.data?.id, '' standing for undefined
DataId(d) == IF "id" \in DOMAIN d THEN d.id ELSE ""

NoFrames == [s \in Sessions |-> << >>]

\* clients.set(id, ws) with an id the Map does not hold yet; clients.delete(id)
ClientsSet(cl, id, ws) == Append(cl, [id |-> id, ws |-> ws])
ClientsDelete(cl, id) == SelectSeq(cl, LAMBDA e : e.id # id)

\* ws.send(msg) throws: the connection has broken and its close handler has
\* not run yet.
SendThrows(ws) == sess[ws].st = "dead"

\* broadcastArray that sends the frame once more after the others, in reverse
\* order of the registry.
RECURSIVE broadcastArray_Resend(_, _, _, _)
broadcastArray_Resend(out, cl, arr, excludeId) ==
    IF cl = << >> THEN out
    ELSE LET e == Head(cl)
             skip == (excludeId # "" /\ e.id = excludeId) \/ SendThrows(e.ws)
             out1 == IF skip THEN out
                     ELSE [out EXCEPT ![e.ws] = Append(@, arr)]
             out2 == broadcastArray_Resend(out1, Tail(cl), arr, excludeId)
         IN IF skip THEN out2 ELSE [out2 EXCEPT ![e.ws] = Append(@, arr)]

\* broadcastArray without the try around ws.send: the first send that throws
\* ends the loop.
RECURSIVE broadcastArray_NoCatch(_, _, _, _)
broadcastArray_NoCatch(out, cl, arr, excludeId) ==
    IF cl = << >> THEN out
    ELSE LET e == Head(cl)
             skip == excludeId # "" /\ e.id = excludeId
         IN IF skip THEN broadcastArray_NoCatch(out, Tail(cl), arr, excludeId)
            ELSE IF SendThrows(e.ws) THEN out
            ELSE broadcastArray_NoCatch([out EXCEPT ![e.ws] = Append(@, arr)], Tail(cl),
                                        arr, excludeId)

\* broadcastArray(arr, excludeId): one ws.send(msg) per entry of the Map whose
\* key is not excludeId ('' and null, both falsy, exclude nothing); a send
\* that throws is caught and the loop goes on.  Returns the frames each
\* connection's send took, after those in `out`.
RECURSIVE broadcastArray(_, _, _, _)
broadcastArray(out, cl, arr, excludeId) ==
    IF cl = << >> THEN out
    ELSE LET e == Head(cl)
             skip == excludeId # "" /\ e.id = excludeId
             out1 == IF skip \/ SendThrows(e.ws) THEN out
                     ELSE [out EXCEPT ![e.ws] = Append(@, arr)]
         IN broadcastArray(out1, Tail(cl), arr, excludeId)

\* The display name `Guest-${idNew.slice(0, 4)}` of the k-th UUID: a name is
\* its text and its length.
GuestPool == <<"Guest-g1", "Guest-g2", "Guest-g3", "Guest-g4", "Guest-g5", "Guest-g6">>
GuestName(k) == [text |-> GuestPool[k], len |-> 10]

\* `hsl(${Math.floor(Math.random() * 360)}, 80%, 60%)`: the hues drawn
HslColors == {"hsl(0, 80%, 60%)", "hsl(359, 80%, 60%)"}

\* name.slice(0, 24): the first 24 characters of a longer text are kept.
LongName == [text |-> "Bartholomew-the-Magnificent-III", len |-> 31]
First24(text) ==
    IF text = "Bartholomew-the-Magnificent-III" THEN "Bartholomew-the-Magnific" ELSE text
Slice24(name) ==
    IF name.len <= 24 THEN name ELSE [text |-> First24(name.text), len |-> 24]

\* ptsFlat of a stroke frame, as JSON writes it
RECURSIVE PtsFlat(_)
PtsFlat(pts) ==
    IF pts = << >> THEN << >>
    ELSE <<JsonNumber(ToNumber(Head(pts).x)), JsonNumber(ToNumber(Head(pts).y))>>
         \o PtsFlat(Tail(pts))

StrokeFrame(stroke) ==
    [op |-> 2, id |-> stroke.id, userId |-> stroke.userId, color |-> stroke.color,
     size |-> stroke.size, opacity |-> stroke.opacity,
     erase |-> IF stroke.erase THEN 1 ELSE 0, pts |-> PtsFlat(stroke.points)]

WelcomeFrame(id, color, name, snapshot) ==
    [op |-> 5, id |-> id, color |-> color, name |-> name, others |-> snapshot]

PresenceFrame(id, d) ==
    [op |-> 1, id |-> id, x |-> d.x, y |-> d.y, color |-> d.color, name |-> d.name]

LeaveFrame(id) == [op |-> 7, id |-> id]

TileBatchDoneFrame(reqId) == [op |-> 6, reqId |-> reqId]

TileDataFrame(reqId, z, tx, ty, compact) ==
    [op |-> 4, reqId |-> reqId, z |-> z, tx |-> tx, ty |-> ty, strokes |-> compact]

-----------------------------------------------------------------------------
(* Decoding of incoming frames: compact array framing and object framing *)

\* identify: [0, r] gives role 'tiles' when r === 1 and 'peer' otherwise;
\* the object framing carries payload.role itself.
IdentifyPayloadRole(f) ==
    IF f.framing = "arr" THEN (IF f.role = Num(1) THEN "tiles" ELSE "peer")
    ELSE IF "str" \in DOMAIN f.role THEN f.role.str ELSE ""

\* line 202: the role an identify frame asks for
IdentifyRole(f) ==
    LET r == IdentifyPayloadRole(f) IN
    IF r = "tiles" THEN "tiles" ELSE IF r = "peer" THEN "peer" ELSE "null"

\* An incoming text frame as JSON.parse sees it: json is "invalid" (parse
\* throws), "falsy" (null, 0, false, ""), "scalar" (another number, string or
\* true), "array" (op is its first element, arg its second) or "object"
\* (type is its type field).
OpNames == <<"identify", "presence", "stroke", "tilesRequest", "tileData", "welcome",
             "tileBatchDone", "leave">>

\* FrameType that takes an array with an unknown opcode for an identify frame.
FrameType_UnknownOpIdentifies(frame) ==
    IF frame.json \in {"invalid", "falsy"} THEN "return"
    ELSE IF frame.json = "array"
      THEN IF IsNum(frame.op) /\ frame.op.num \in 0..7 THEN OpNames[frame.op.num + 1]
           ELSE "identify"
    ELSE IF frame.json = "object" THEN frame.type
    ELSE "null"

\* Lines 172-198: the type the dispatch works with; "return" when the handler
\* returns before the dispatch, "null" when type stays null.
FrameType(frame) ==
    IF frame.json \in {"invalid", "falsy"} THEN "return"
    ELSE IF frame.json = "array"
      THEN IF IsNum(frame.op) /\ frame.op.num \in 0..7 THEN OpNames[frame.op.num + 1]
           ELSE "return"
    ELSE IF frame.json = "object" THEN frame.type
    ELSE "null"

\* !!v for a number, a string, null or undefined
Truthy(v) ==
    \/ IsNum(v) /\ v.num # 0
    \/ "str" \in DOMAIN v /\ v.str # ""

\* PairUp that advances by one value instead of two.
RECURSIVE PairUp_StepOne(_)
PairUp_StepOne(flat) ==
    IF flat = << >> THEN << >>
    ELSE IF Len(flat) = 1 THEN <<[x |-> flat[1], y |-> Undef, p |-> Undef]>>
    ELSE <<[x |-> flat[1], y |-> flat[2], p |-> Undef]>>
         \o PairUp_StepOne(Tail(flat))

\* stroke: [2, id, userId, color, size, opacity, erase, flat] pairs up the flat
\* coordinates; a last x without a y gets y undefined.
RECURSIVE PairUp(_)
PairUp(flat) ==
    IF flat = << >> THEN << >>
    ELSE IF Len(flat) = 1 THEN <<[x |-> flat[1], y |-> Undef, p |-> Undef]>>
    ELSE <<[x |-> flat[1], y |-> flat[2], p |-> Undef]>> \o PairUp(SubSeq(flat, 3, Len(flat)))

StrokePayload(f) ==
    IF f.framing = "arr"
    THEN [id |-> f.id, userId |-> f.userId, color |-> f.color, size |-> f.size,
          opacity |-> f.opacity, erase |-> Truthy(f.erase), points |-> PairUp(f.flat)]
    ELSE [id |-> f.id, userId |-> f.userId, color |-> f.color, size |-> f.size,
          opacity |-> f.opacity, erase |-> f.erase, points |-> f.points]

-----------------------------------------------------------------------------
(* Tile queries *)

\* A requested tile is served when Number(tx) and Number(ty) are finite.
ValidTile(t) == IsFinite(ToNumber(t.tx)) /\ IsFinite(ToNumber(t.ty))

\* a || b for a reqId (a number, a string or undefined)
ReqIdOr(a, b) ==
    IF IsNum(a) THEN (IF a.num # 0 THEN a ELSE b)
    ELSE IF "str" \in DOMAIN a THEN (IF a.str # "" THEN a ELSE b)
    ELSE b

\* The compact form of a stored stroke in a tileData frame (line 244)
CompactStroke(st) ==
    [id |-> st.id, userId |-> StrOr(st.userId, ""), color |-> StrOr(st.color, "#000"),
     size |-> NumOr(Num(st.size), Num(4)).num,
     opacity |-> NumOr(Num(st.opacity), Num(1)).num,
     erase |-> IF st.erase THEN 1 ELSE 0, pts |-> PtsFlat(st.points)]

\* TilesRequestFrames that sends no tileData frame for a tile without strokes.
TilesRequestFrames_SkipEmpty(rs, req) ==
    LET reqId == ReqIdOr(req.reqId, Null)
        zVal == ToNumber(IF req.z \in {Undef, Null} THEN Num(Z) ELSE req.z)
        tilesArr == req.tiles
        served == SelectSeq(tilesArr,
                    LAMBDA t : ValidTile(t) /\
                       readTileStrokes(rs, zVal, ToNumber(t.tx).num, ToNumber(t.ty).num,
                                       NoSince) # << >>)
    IN IF Len(tilesArr) = 0 THEN <<TileBatchDoneFrame(reqId)>>
       ELSE IF Len(tilesArr) > MAX_BATCH_WS THEN <<TileBatchDoneFrame(reqId)>>
       ELSE [i \in DOMAIN served |->
               LET tx == ToNumber(served[i].tx).num
                   ty == ToNumber(served[i].ty).num
                   strokes == readTileStrokes(rs, zVal, tx, ty, NoSince)
               IN TileDataFrame(reqId, JsonNumber(zVal), tx, ty,
                                [k \in DOMAIN strokes |-> CompactStroke(strokes[k])])]
            \o <<TileBatchDoneFrame(reqId)>>

\* The frames a tiles session is sent for a request (lines 231-248)
TilesRequestFrames(rs, req) ==
    LET reqId == ReqIdOr(req.reqId, Null)
        zVal == ToNumber(IF req.z \in {Undef, Null} THEN Num(Z) ELSE req.z)
        tilesArr == req.tiles
        served == SelectSeq(tilesArr, ValidTile)
    IN IF Len(tilesArr) = 0 THEN <<TileBatchDoneFrame(reqId)>>
       ELSE IF Len(tilesArr) > MAX_BATCH_WS THEN <<TileBatchDoneFrame(reqId)>>
       ELSE [i \in DOMAIN served |->
               LET tx == ToNumber(served[i].tx).num
                   ty == ToNumber(served[i].ty).num
                   strokes == readTileStrokes(rs, zVal, tx, ty, NoSince)
               IN TileDataFrame(reqId, JsonNumber(zVal), tx, ty,
                                [k \in DOMAIN strokes |-> CompactStroke(strokes[k])])]
            \o <<TileBatchDoneFrame(reqId)>>

\* BatchResponse that refuses a batch of exactly MAX_BATCH_HTTP tiles too.
BatchResponse_CapInclusive(rs, body) ==
    LET z == ToNumber(IF body.z \in {Undef, Null} THEN Num(Z) ELSE body.z)
        tilesArr == body.tiles
        served == SelectSeq(tilesArr, ValidTile)
    IN IF Len(tilesArr) = 0 THEN [status |-> 200, tiles |-> << >>]
       ELSE IF Len(tilesArr) >= MAX_BATCH_HTTP
         THEN [status |-> 400, error |-> "too many tiles requested"]
       ELSE [status |-> 200,
             tiles |-> [i \in DOMAIN served |->
                 LET tx == ToNumber(served[i].tx).num
                     ty == ToNumber(served[i].ty).num
                 IN [z |-> JsonNumber(z), tx |-> tx, ty |-> ty,
                     strokes |-> readTileStrokes(rs, z, tx, ty, NoSince)]]]

\* The response of POST /api/tile-strokes-batch (lines 135-148)
BatchResponse(rs, body) ==
    LET z == ToNumber(IF body.z \in {Undef, Null} THEN Num(Z) ELSE body.z)
        tilesArr == body.tiles
        served == SelectSeq(tilesArr, ValidTile)
    IN IF Len(tilesArr) = 0 THEN [status |-> 200, tiles |-> << >>]
       ELSE IF Len(tilesArr) > MAX_BATCH_HTTP
         THEN [status |-> 400, error |-> "too many tiles requested"]
       ELSE [status |-> 200,
             tiles |-> [i \in DOMAIN served |->
                 LET tx == ToNumber(served[i].tx).num
                     ty == ToNumber(served[i].ty).num
                 IN [z |-> JsonNumber(z), tx |-> tx, ty |-> ty,
                     strokes |-> readTileStrokes(rs, z, tx, ty, NoSince)]]]

\* The response of GET /api/tile-strokes (lines 123-129).  A parameter is Null
\* when absent (searchParams.get gives null), else the Number() of its text.
TileStrokesResponse(rs, q) ==
    LET z == ToNumber(IF q.z = Null THEN Num(Z) ELSE q.z)
        tx == ToNumber(q.tx)
        ty == ToNumber(q.ty)
        since == IF q.since = Null THEN NoSince ELSE ToNumber(q.since)
    IN IF ~IsFinite(tx) \/ ~IsFinite(ty) THEN [status |-> 400, error |-> "tx,ty required"]
       ELSE [status |-> 200, z |-> JsonNumber(z), tx |-> tx.num, ty |-> ty.num,
             strokes |-> readTileStrokes(rs, z, tx.num, ty.num, since)]

\* Math.round(a / b) for a >= 0 and b > 0
RoundDiv(a, b) == (2 * a + b) \div (2 * b)

\* The response of GET /api/db-status (lines 112-120).  Sizes are kept in
\* pages: currentSize is sizePages * PAGE_SIZE, and MAX_DB_SIZE_BYTES is a
\* whole number of pages, so the ratio is the ratio of the page counts.
DbStatusResponse(rs) ==
    [status |-> 200, sizePages |-> DbPageCount(rs),
     maxSizePages |-> MAX_DB_SIZE_BYTES \div PAGE_SIZE,
     strokeCount |-> Len(rs),
     utilizationPercent |->
         RoundDiv(DbPageCount(rs) * 100, MAX_DB_SIZE_BYTES \div PAGE_SIZE)]

NoResp == [status |-> 0]

-----------------------------------------------------------------------------
(* Inputs *)

Pt(x, y) == [x |-> Num(x), y |-> Num(y), p |-> Undef]

RawStroke(id, size, points) ==
    [framing |-> "obj", id |-> id, userId |-> "", color |-> "#f00", size |-> size,
     opacity |-> Num(1), erase |-> FALSE, z |-> Undef, t |-> Undef, points |-> points]

\* one tile, (0,0): the padded box ends at x = 1024, the edge of tile (1,0)
StrokeOneTile == RawStroke("a", Num(6), <<Pt(100, 100), Pt(1012, 100)>>)
\* two tiles, (0,0) and (1,0): the padded box crosses x = 1024
StrokeCross == RawStroke("c", Num(6), <<Pt(1020, 50), Pt(1030, 50)>>)
\* no id and no size (a UUID and 12 are used), one point without a y; two
\* tiles, (-1,0) and (0,0)
StrokeNoId == RawStroke("", Undef, <<Pt(-5, 500), [x |-> Num(7), y |-> Undef, p |-> Undef]>>)
\* size above the clamp; two tiles, (0,0) and (1,0)
StrokeWide == RawStroke("w", Num(200), <<Pt(900, 500)>>)
\* no finite point
StrokeNoPoint == RawStroke("n", Num(6), <<[x |-> Undef, y |-> Num(5), p |-> Undef]>>)
\* no point at all
StrokeEmpty == RawStroke("e", Num(6), << >>)
\* compact array framing: [2, "sid", "uid", "#000", 4, 1, 0, [30, 40, 50, 40]]
StrokeCompact ==
    [framing |-> "arr", id |-> "sid", userId |-> "uid", color |-> "#000", size |-> Num(4),
     opacity |-> Num(1), erase |-> Num(0), flat |-> <<Num(30), Num(40), Num(50), Num(40)>>]

\* the frame of scenario 6: [2, "sid", "uid", "#000", 4, 1, 0, [0,0, 10,0, 10,10]];
\* four tiles around the origin
StrokeScenario6 ==
    [framing |-> "arr", id |-> "sid", userId |-> "uid", color |-> "#000", size |-> Num(4),
     opacity |-> Num(1), erase |-> Num(0),
     flat |-> <<Num(0), Num(0), Num(10), Num(0), Num(10), Num(10)>>]
\* an eraser stroke with pressure values, half opaque
StrokeErase ==
    [RawStroke("x", Num(3), <<[x |-> Num(300), y |-> Num(200), p |-> Num(1)],
                              [x |-> Num(310), y |-> Num(205), p |-> Undef]>>)
       EXCEPT !.erase = TRUE, !.userId = "u2", !.z = Num(1)]

\* a stroke with a negative opacity, which the clamp makes 0; one tile, (0,0)
StrokeClear == [RawStroke("o", Num(6), <<Pt(200, 100)>>) EXCEPT !.opacity = Num(-1)]

\* strokes that differ in their opacity only: 0, below 0, 1, above 1, none,
\* not a number; one tile, (0,0)
OpacityValues == {Num(0), Num(-1), Num(1), Num(2), Undef, NaN}
OpacityInputs ==
    {[RawStroke("op", Num(6), <<Pt(100, 100)>>) EXCEPT !.userId = "u1", !.opacity = v] :
        v \in OpacityValues}

\* a stroke that carries a t of its own; one tile, (0,0)
StrokeClientT ==
    [RawStroke("ct", Num(6), <<Pt(100, 100)>>) EXCEPT !.userId = "u1", !.t = Num(7)]

\* the values a client can write in a stroke's t
ClientTimes == {Undef, Num(0), Num(1), Num(7)}

\* frames the claim about malformed input names: text that is not JSON, JSON
\* that is neither an object nor an array, arrays with an unknown opcode (9,
\* a string, none)
MalformedFrames ==
    {[json |-> "invalid"], [json |-> "falsy"], [json |-> "scalar"],
     [json |-> "array", op |-> Num(9), arg |-> Num(1)],
     [json |-> "array", op |-> [str |-> "identify"], arg |-> Num(1)],
     [json |-> "array", op |-> Undef, arg |-> Undef]}

\* and frames the server has no handling for, or identify frames
FrameInputs ==
    MalformedFrames \cup
    {[json |-> "array", op |-> Num(0), arg |-> Num(0)],
     [json |-> "array", op |-> Num(0), arg |-> Num(1)],
     [json |-> "array", op |-> Num(4), arg |-> Num(1)],
     [json |-> "object", type |-> "welcome"],
     [json |-> "object", type |-> "bogus"]}

WsStrokeInputs == {StrokeOneTile, StrokeCross, StrokeNoId, StrokeNoPoint, StrokeCompact}

\* POST /api/stroke bodies: the client may name a peer's id as the stroke id
\* and may give z
HttpStrokeInputs ==
    {StrokeOneTile, StrokeWide, StrokeNoPoint,
     [RawStroke("c", Num(6), <<Pt(1020, 50), Pt(1030, 50)>>) EXCEPT !.z = Num(1)]}

IdentifyInputs ==
    {[framing |-> "arr", role |-> Num(1)], [framing |-> "arr", role |-> Num(0)],
     [framing |-> "obj", role |-> [str |-> "peer"]],
     [framing |-> "obj", role |-> [str |-> "tiles"]],
     [framing |-> "obj", role |-> [str |-> "admin"]]}

ShortName == [text |-> "Ann", len |-> 3]

\* presence payloads: the id is whatever the client writes
PresenceInputs ==
    {[id |-> "g1", x |-> Num(5), y |-> Num(7), name |-> Undef, color |-> Undef],
     [id |-> "", x |-> Num(5), y |-> Undef, name |-> LongName, color |-> [str |-> "#0f0"]],
     [id |-> "zz", x |-> Undef, y |-> Undef, name |-> ShortName, color |-> Undef]}

Tile(tx, ty) == [tx |-> Num(tx), ty |-> Num(ty)]
BadTile == [tx |-> Undef, ty |-> Num(0)]

\* n tiles, alternating between (0,0) and (1,0)
ManyTiles(n) == [i \in 1..n |-> Tile(i % 2, 0)]

TilesRequestInputs ==
    {[reqId |-> [str |-> "r1"], z |-> Num(0), tiles |-> << >>],
     [reqId |-> [str |-> "r2"], z |-> Num(0), tiles |-> <<Tile(1, 0), BadTile, Tile(0, 0), Tile(2, 0)>>],
     [reqId |-> Num(0), z |-> Undef, tiles |-> <<Tile(0, 0)>>],
     [reqId |-> Num(7), z |-> Num(0), tiles |-> ManyTiles(MAX_BATCH_WS)],
     [reqId |-> Num(8), z |-> Num(0), tiles |-> ManyTiles(MAX_BATCH_WS + 1)]}

BatchInputs ==
    {[z |-> Num(0), tiles |-> << >>],
     [z |-> Undef, tiles |-> <<Tile(1, 0), BadTile, Tile(0, 0)>>],
     [z |-> Num(0), tiles |-> ManyTiles(MAX_BATCH_HTTP)],
     [z |-> Num(0), tiles |-> ManyTiles(MAX_BATCH_HTTP + 1)]}

TileQueryInputs ==
    {[z |-> Null, tx |-> Num(0), ty |-> Num(0), since |-> Null],
     [z |-> Num(0), tx |-> Num(0), ty |-> Num(0), since |-> Num(1)],
     [z |-> Num(0), tx |-> NaN, ty |-> Num(0), since |-> Null],
     [z |-> Num(0), tx |-> Null, ty |-> Num(0), since |-> Null]}

\* pages one row takes: a short payload, or a long one (many points)
BlobPages == {1, BigBlobPages}

-----------------------------------------------------------------------------
(* The state after construction: an empty table or the table a previous run
   left in DATA_DIR, no connection yet *)

OldStroke(id, t) ==
    [id |-> id, userId |-> "", color |-> "#f00", size |-> 6, opacity |-> 1,
     points |-> <<[x |-> Num(100), y |-> Num(100), p |-> Num(0)]>>,
     z |-> Num(0), t |-> t, erase |-> FALSE]

OldRow(id, t, tx) ==
    [z |-> 0, tx |-> tx, ty |-> 0, t |-> t, id |-> id, json |-> OldStroke(id, t),
     pages |-> BigBlobPages]

\* a table that has reached the size limit, written while the wall clock was
\* set back: t is not in rowid order
OldTable == <<OldRow("o2", 2, 0), OldRow("o1", 1, 0)>>

InitTables == {<< >>, OldTable}

\* pages of one row of the full table
OldRowPages == 24000

\* a table a previous run left at the size limit: strokes drawn one after
\* the other along a row of tiles, the last of them at t = 0 (t counts from
\* the start of this run)
OldIdPool == <<"p1", "p2", "p3", "p4", "p5", "p6", "p7", "p8", "p9", "p10", "p11", "p12",
               "p13", "p14", "p15", "p16">>

PastStroke(i) ==
    [OldStroke(OldIdPool[i], i - OldRowCount) EXCEPT
        !.points = <<[x |-> Num(TILE_SIZE * (i - 1) + 100), y |-> Num(100), p |-> Num(0)]>>]

FullTable ==
    [i \in 1..OldRowCount |->
        [z |-> 0, tx |-> i - 1, ty |-> 0, t |-> i - OldRowCount, id |-> OldIdPool[i],
         json |-> PastStroke(i), pages |-> OldRowPages]]

\* The tile worker (src/unnamed/part_004) and the page's stroke sender
\* (src/unnamed/part_002), as one page runs them.
MaxRequests == 3
MaxClears == 1
MaxStrokes == 4

\* request ids of FETCH_TILE_STROKES messages, and the tile keys `${z}:${tx}:${ty}`
RequestIds == 1..MaxRequests
TileKeys == {"0:0:0", "0:1:0"}
TILE_CACHE_MAX == 512

\* tileCache: the cached keys in insertion order; pendingFetches and
\* debouncedFetches: per key the promise held (0: no entry); promises: the
\* promises debouncedFetch has made, each "timer" (timeout set), "fetching"
\* (timeout fired, fetchFn running), "cancelled" (timeout cleared: it never
\* settles), "resolved" or "rejected"; awaiting: per request the promise its
\* handler awaits and whether it is the handler that set pendingFetches;
\* results: per request the TILE_STROKES_RESULT messages broadcast with its id.
InitWorker ==
    [tileCache |-> << >>,
     pendingFetches |-> [k \in TileKeys |-> 0],
     debouncedFetches |-> [k \in TileKeys |-> 0],
     promises |-> << >>,
     requested |-> {},
     awaiting |-> [r \in RequestIds |-> [p |-> 0, owner |-> FALSE]],
     results |-> [r \in RequestIds |-> 0],
     clears |-> 0]

\* wsReady; sendStroke._queue and whether sendStroke._timer is set; the
\* strokes given to ws.send and the strokes POSTed to /api/stroke, in order;
\* passed: how many strokes sendStroke has been called with.
InitPage ==
    [wsReady |-> FALSE, queue |-> << >>, timer |-> FALSE,
     channel |-> << >>, posted |-> << >>, passed |-> 0]

Init ==
    /\ rows \in InitTables
    /\ now = 1
    /\ uuids = 0
    /\ sess = [s \in Sessions |-> [st |-> "new", data |-> NoData]]
    /\ clients = << >>
    /\ sent = NoFrames
    /\ resp = NoResp
    /\ last = [ev |-> "init"]
    /\ worker = InitWorker
    /\ page = InitPage

-----------------------------------------------------------------------------
(* Actions *)

IsOpen(s) == sess[s].st = "open"
\* (for the record kept in `last`) whether the table holds a row with this id
HasId(rs, id) == \E i \in DOMAIN rs : rs[i].id = id
Role(s) == sess[s].data.role

\* Date.now() advances
Tick ==
    /\ now < MaxClock
    /\ now' = now + 1
    /\ sent' = NoFrames /\ resp' = NoResp /\ last' = [ev |-> "tick"]
    /\ UNCHANGED <<rows, uuids, sess, clients, worker, page>>

\* websocket.open
Open(s) ==
    /\ sess[s].st = "new"
    /\ sess' = [sess EXCEPT ![s] = [st |-> "open", data |-> NoData]]
    /\ sent' = NoFrames /\ resp' = NoResp /\ last' = [ev |-> "open", s |-> s]
    /\ UNCHANGED <<rows, now, uuids, clients, worker, page>>

\* The welcome snapshot: every entry of the Map but idNew, with the cursor of
\* its connection's current ws.data.
Snapshot(cl, idNew, data) ==
    LET others == SelectSeq(cl, LAMBDA e : e.id # idNew)
    IN [i \in DOMAIN others |->
          [id |-> others[i].id, x |-> data[others[i].ws].x, y |-> data[others[i].ws].y]]

\* websocket.message, an identify frame (lines 201-213)
WsIdentify(s, f, color) ==
    /\ IsOpen(s)
    /\ LET role == IdentifyRole(f) IN
       IF role = "peer" THEN
         /\ uuids < MaxUuid
         /\ LET idNew == RandomUUID(uuids + 1)
                d == [role |-> "peer", id |-> idNew, color |-> color,
                      name |-> GuestName(uuids + 1), x |-> 0, y |-> 0]
                cl == ClientsSet(clients, idNew, s)
                data == [x \in Sessions |-> IF x = s THEN d ELSE sess[x].data]
            IN /\ sess' = [sess EXCEPT ![s].data = d]
               /\ clients' = cl
               /\ uuids' = uuids + 1
               /\ sent' = [NoFrames EXCEPT ![s] =
                              <<WelcomeFrame(idNew, color, d.name, Snapshot(cl, idNew, data))>>]
       ELSE IF role = "tiles" THEN
         /\ sess' = [sess EXCEPT ![s].data.role = "tiles"]
         /\ sent' = NoFrames
         /\ UNCHANGED <<clients, uuids>>
       ELSE
         /\ sent' = NoFrames
         /\ UNCHANGED <<sess, clients, uuids>>
    /\ resp' = NoResp
    /\ last' = [ev |-> "identify", s |-> s, role |-> IdentifyRole(f)]
    /\ UNCHANGED <<rows, now, worker, page>>

\* websocket.message for a frame given as text (lines 171-213, 250-254): the
\* parse, the opcode switch and the dispatch.  Presence, stroke and
\* tilesRequest frames are the actions below, given their decoded payload.
WsFrame(s, frame) ==
    /\ IsOpen(s)
    /\ LET type == FrameType(frame) IN
       /\ type \notin {"presence", "stroke", "tilesRequest"}
       /\ IF type = "identify"
          THEN WsIdentify(s, [framing |-> "arr", role |-> frame.arg], "hsl(0, 80%, 60%)")
          ELSE /\ sent' = NoFrames /\ resp' = NoResp
               /\ last' = [ev |-> "frame", s |-> s, frame |-> frame]
               /\ UNCHANGED <<rows, now, uuids, sess, clients, worker, page>>

\* PresenceData that takes a finite x without a finite y.
PresenceData_XAlone(d, p) ==
    LET d1 == IF IsNum(p.x)
              THEN [d EXCEPT !.x = p.x.num, !.y = IF IsNum(p.y) THEN p.y.num ELSE @]
              ELSE d
        d2 == IF "text" \in DOMAIN p.name THEN [d1 EXCEPT !.name = Slice24(p.name)] ELSE d1
    IN IF "str" \in DOMAIN p.color THEN [d2 EXCEPT !.color = p.color.str] ELSE d2

\* ws.data after a presence payload (lines 216-218)
PresenceData(d, p) ==
    LET d1 == IF IsNum(p.x) /\ IsNum(p.y) THEN [d EXCEPT !.x = p.x.num, !.y = p.y.num] ELSE d
        d2 == IF "text" \in DOMAIN p.name THEN [d1 EXCEPT !.name = Slice24(p.name)] ELSE d1
    IN IF "str" \in DOMAIN p.color THEN [d2 EXCEPT !.color = p.color.str] ELSE d2

\* websocket.message, a presence frame (lines 215-219)
WsPresence(s, p) ==
    /\ IsOpen(s)
    /\ IF Role(s) = "peer" THEN
         LET d == PresenceData(sess[s].data, p) IN
         /\ sess' = [sess EXCEPT ![s].data = d]
         /\ sent' = broadcastArray(NoFrames, clients, PresenceFrame(p.id, d), p.id)
       ELSE
         /\ sent' = NoFrames
         /\ UNCHANGED sess
    /\ resp' = NoResp
    /\ last' = [ev |-> "presence", s |-> s, p |-> p]
    /\ UNCHANGED <<rows, now, uuids, clients, worker, page>>

\* WsStroke without the role check: any open connection's stroke is taken.
WsStroke_NoRoleCheck(s, f, pages, dbOk) ==
    /\ IsOpen(s)
    /\ LET payload == StrokePayload(f)
           mint == payload.id = ""
           stroke == WsCanonStroke(payload, IF mint THEN RandomUUID(uuids + 1) ELSE "",
                                   DataId(sess[s].data), now)
       IN /\ mint => uuids < MaxUuid
          /\ Len(rows) + Len(StrokeTiles(stroke)) <= MaxRows
          /\ \E o \in appendStrokeToTiles(rows, stroke, now, pages, dbOk) :
                /\ rows' = o.rows
                /\ last' = [ev |-> "stroke", s |-> s, stroke |-> stroke, dbOk |-> dbOk,
                            dup |-> HasId(rows, stroke.id), evicted |-> o.evicted,
                              tiles |-> o.tiles]
          /\ uuids' = IF mint THEN uuids + 1 ELSE uuids
          /\ sent' = broadcastArray(NoFrames, clients, StrokeFrame(stroke), payload.id)
    /\ resp' = NoResp
    /\ UNCHANGED <<now, sess, clients, worker, page>>

\* websocket.message, a stroke frame (lines 220-226).  pages and dbOk are the
\* environment's: the space a row of this payload takes, whether the engine
\* accepts the insert.
WsStroke(s, f, pages, dbOk) ==
    /\ IsOpen(s)
    /\ IF Role(s) = "peer" THEN
         LET payload == StrokePayload(f)
             mint == payload.id = ""
             stroke == WsCanonStroke(payload, IF mint THEN RandomUUID(uuids + 1) ELSE "",
                                     DataId(sess[s].data), now)
         IN /\ mint => uuids < MaxUuid
            /\ Len(rows) + Len(StrokeTiles(stroke)) <= MaxRows
            /\ \E o \in appendStrokeToTiles(rows, stroke, now, pages, dbOk) :
                  /\ rows' = o.rows
                  /\ last' = [ev |-> "stroke", s |-> s, stroke |-> stroke, dbOk |-> dbOk,
                              dup |-> HasId(rows, stroke.id), evicted |-> o.evicted,
                              tiles |-> o.tiles]
            /\ uuids' = IF mint THEN uuids + 1 ELSE uuids
            /\ sent' = broadcastArray(NoFrames, clients, StrokeFrame(stroke), payload.id)
       ELSE
         /\ sent' = NoFrames
         /\ last' = [ev |-> "strokeIgnored", s |-> s]
         /\ UNCHANGED <<rows, uuids>>
    /\ resp' = NoResp
    /\ UNCHANGED <<now, sess, clients, worker, page>>

\* websocket.message, a tilesRequest frame (lines 227-249)
WsTilesRequest(s, req) ==
    /\ IsOpen(s)
    /\ IF Role(s) = "tiles"
       THEN sent' = [NoFrames EXCEPT ![s] = TilesRequestFrames(rows, req)]
       ELSE sent' = NoFrames
    /\ resp' = NoResp
    /\ last' = [ev |-> "tilesRequest", s |-> s, req |-> req]
    /\ UNCHANGED <<rows, now, uuids, sess, clients, worker, page>>

\* The connection breaks: from now on its send throws, and no frame of it
\* arrives; its close handler has yet to run.
Break(s) ==
    /\ IsOpen(s)
    /\ sess' = [sess EXCEPT ![s].st = "dead"]
    /\ sent' = NoFrames /\ resp' = NoResp /\ last' = [ev |-> "break", s |-> s]
    /\ UNCHANGED <<rows, now, uuids, clients, worker, page>>

\* websocket.close (line 256)
Close(s) ==
    /\ sess[s].st \in {"open", "dead"}
    /\ sess' = [sess EXCEPT ![s].st = "closed"]
    /\ LET id == DataId(sess[s].data) IN
       IF id # "" THEN
         /\ clients' = ClientsDelete(clients, id)
         /\ sent' = broadcastArray(NoFrames, ClientsDelete(clients, id), LeaveFrame(id), "")
       ELSE
         /\ sent' = NoFrames
         /\ UNCHANGED clients
    /\ resp' = NoResp
    /\ last' = [ev |-> "close", s |-> s]
    /\ UNCHANGED <<rows, now, uuids, worker, page>>

\* HttpStroke that hands the stroke to broadcastArray as the channel does.
HttpStroke_Relays(raw, pages, dbOk) ==
    LET mint == raw.id = ""
        stroke == HttpCanonStroke(raw, IF mint THEN RandomUUID(uuids + 1) ELSE "", now)
    IN /\ mint => uuids < MaxUuid
       /\ Len(rows) + Len(StrokeTiles(stroke)) <= MaxRows
       /\ \E o \in appendStrokeToTiles(rows, stroke, now, pages, dbOk) :
             /\ rows' = o.rows
             /\ last' = [ev |-> "httpStroke", s |-> 0, stroke |-> stroke, dbOk |-> dbOk,
                         dup |-> HasId(rows, stroke.id), evicted |-> o.evicted,
                              tiles |-> o.tiles]
       /\ uuids' = IF mint THEN uuids + 1 ELSE uuids
       /\ resp' = [status |-> 200, ok |-> TRUE, id |-> stroke.id, t |-> stroke.t]
       /\ sent' = broadcastArray(NoFrames, clients, StrokeFrame(stroke), "")
       /\ UNCHANGED <<now, sess, clients, worker, page>>

\* POST /api/stroke (lines 152-159)
HttpStroke(raw, pages, dbOk) ==
    LET mint == raw.id = ""
        stroke == HttpCanonStroke(raw, IF mint THEN RandomUUID(uuids + 1) ELSE "", now)
    IN /\ mint => uuids < MaxUuid
       /\ Len(rows) + Len(StrokeTiles(stroke)) <= MaxRows
       /\ \E o \in appendStrokeToTiles(rows, stroke, now, pages, dbOk) :
             /\ rows' = o.rows
             /\ last' = [ev |-> "httpStroke", s |-> 0, stroke |-> stroke, dbOk |-> dbOk,
                         dup |-> HasId(rows, stroke.id), evicted |-> o.evicted,
                              tiles |-> o.tiles]
       /\ uuids' = IF mint THEN uuids + 1 ELSE uuids
       /\ resp' = [status |-> 200, ok |-> TRUE, id |-> stroke.id, t |-> stroke.t]
       /\ sent' = NoFrames
       /\ UNCHANGED <<now, sess, clients, worker, page>>

\* GET /api/tile-strokes (lines 122-130)
HttpTileStrokes(q) ==
    /\ resp' = TileStrokesResponse(rows, q)
    /\ sent' = NoFrames
    /\ last' = [ev |-> "httpTile", q |-> q]
    /\ UNCHANGED <<rows, now, uuids, sess, clients, worker, page>>

\* POST /api/tile-strokes-batch (lines 132-150)
HttpBatch(body) ==
    /\ resp' = BatchResponse(rows, body)
    /\ sent' = NoFrames
    /\ last' = [ev |-> "httpBatch", n |-> Len(body.tiles)]
    /\ UNCHANGED <<rows, now, uuids, sess, clients, worker, page>>

\* GET /api/db-status (lines 112-120)
HttpDbStatus ==
    /\ resp' = DbStatusResponse(rows)
    /\ sent' = NoFrames
    /\ last' = [ev |-> "httpDbStatus"]
    /\ UNCHANGED <<rows, now, uuids, sess, clients, worker, page>>

\* The whole server: every handler with every input.
Next ==
    \/ Tick
    \/ \E s \in Sessions : Open(s)
    \/ \E s \in Sessions, f \in IdentifyInputs, c \in HslColors : WsIdentify(s, f, c)
    \/ \E s \in Sessions, p \in PresenceInputs : WsPresence(s, p)
    \/ \E s \in Sessions, f \in WsStrokeInputs, pg \in BlobPages, ok \in BOOLEAN :
          WsStroke(s, f, pg, ok)
    \/ \E s \in Sessions, r \in TilesRequestInputs : WsTilesRequest(s, r)
    \/ \E s \in Sessions : Close(s)
    \/ \E raw \in HttpStrokeInputs, pg \in BlobPages, ok \in BOOLEAN : HttpStroke(raw, pg, ok)
    \/ \E q \in TileQueryInputs : HttpTileStrokes(q)
    \/ \E b \in BatchInputs : HttpBatch(b)
    \/ HttpDbStatus

\* The channel: every connection handler, over a table of at most ChanMaxRows
\* rows written by short strokes at one clock value.
\* the strokes name their user, so the rows do not depend on who sent them
ChanStrokeInputs == {[StrokeOneTile EXCEPT !.userId = "u1"], StrokeNoPoint}
\* a cursor update, under the first session id and under an id of no session
ChanPresenceInputs ==
    {[p EXCEPT !.id = i] : p \in {q \in PresenceInputs : q.id = "g1"}, i \in {"g1", "zz"}}
ChanRequestInputs == {r \in TilesRequestInputs : Len(r.tiles) = 1}

NextChannel ==
    \/ \E s \in Sessions : Open(s)
    \/ \E s \in Sessions, f \in IdentifyInputs : WsIdentify(s, f, "hsl(0, 80%, 60%)")
    \/ \E s \in Sessions, p \in ChanPresenceInputs : WsPresence(s, p)
    \/ \E s \in Sessions, f \in ChanStrokeInputs, ok \in BOOLEAN :
          Len(rows) < ChanMaxRows /\ WsStroke(s, f, 1, ok)
    \/ \E s \in Sessions, r \in ChanRequestInputs : WsTilesRequest(s, r)
    \/ \E s \in Sessions : Close(s)

\* the channel is explored over the empty table
InitChannel == Init /\ rows = << >>

Spec == InitChannel /\ [][NextChannel]_vars

\* The store: every handler that reads or writes the table, with one peer
\* connection for the strokes that arrive on the channel.
StoreSession == 1
PeerIdentify == [framing |-> "obj", role |-> [str |-> "peer"]]

StoreWsInputs == {[StrokeNoId EXCEPT !.userId = "u1"], StrokeNoPoint, StrokeEmpty}
StoreHttpInputs == {StrokeOneTile, [StrokeWide EXCEPT !.z = Num(1)]}
\* the space a row takes: the wide stroke's rows are large ones
StorePages(raw) == IF raw.id = "w" THEN BigBlobPages ELSE 1

\* how many tiles the stroke of an object-framed payload covers
RawTiles(raw) == Len(StrokeTiles(HttpCanonStroke(raw, "", 0)))
\* and the stroke of a frame in either framing
FrameTiles(f) == Len(StrokeTiles(WsCanonStroke(StrokePayload(f), "", "", 0)))

StoreQueryInputs == {q \in TileQueryInputs : IsNum(q.tx) /\ q.tx.num = 0}

NextStore ==
    \/ Tick
    \/ Open(StoreSession)
    \/ WsIdentify(StoreSession, PeerIdentify, "hsl(0, 80%, 60%)")
    \/ \E f \in StoreWsInputs, ok \in BOOLEAN :
          Len(rows) + RawTiles(f) <= StoreMaxRows /\ WsStroke(StoreSession, f, StorePages(f), ok)
    \/ \E raw \in StoreHttpInputs, ok \in BOOLEAN :
          Len(rows) + RawTiles(raw) <= StoreMaxRows /\ HttpStroke(raw, StorePages(raw), ok)
    \/ \E q \in StoreQueryInputs : HttpTileStrokes(q)

SpecStore == Init /\ [][NextStore]_vars

\* Tile queries: the two batch surfaces with requests up to and over the
\* caps, over the tables a few strokes leave.
QueryStrokeInputs == {StrokeOneTile, StrokeCross, StrokeClear}

QuerySession == 1
QueryIdentifyInputs == {f \in IdentifyInputs : f.framing = "arr"}

NextQuery ==
    \/ Open(QuerySession)
    \/ \E f \in QueryIdentifyInputs : WsIdentify(QuerySession, f, "hsl(0, 80%, 60%)")
    \/ \E r \in TilesRequestInputs : WsTilesRequest(QuerySession, r)
    \/ \E raw \in QueryStrokeInputs :
          Len(rows) < QueryMaxRows /\ HttpStroke(raw, 1, TRUE)
    \/ \E b \in BatchInputs : HttpBatch(b)

SpecQuery == Init /\ [][NextQuery]_vars

\* The codec: strokes in both framings and over both surfaces, written to an
\* empty table and read back.
CodecWsInputs == {StrokeScenario6, [StrokeNoId EXCEPT !.userId = "u1"]}
CodecHttpInputs == {StrokeErase, StrokeOneTile}

NextCodec ==
    \/ Tick
    \/ Open(StoreSession)
    \/ WsIdentify(StoreSession, PeerIdentify, "hsl(0, 80%, 60%)")
    \/ \E f \in CodecWsInputs, ok \in BOOLEAN :
          Len(rows) + FrameTiles(f) <= CodecMaxRows /\ WsStroke(StoreSession, f, 1, ok)
    \/ \E raw \in CodecHttpInputs, ok \in BOOLEAN :
          Len(rows) + RawTiles(raw) <= CodecMaxRows /\ HttpStroke(raw, 1, ok)
    \/ \E q \in TileQueryInputs : HttpTileStrokes(q)

SpecCodec == InitChannel /\ [][NextCodec]_vars

\* The time of ingest: strokes with and without a t of their own, over both
\* surfaces, while the clock advances.
TimeWsInputs == {StrokeClientT, [StrokeOneTile EXCEPT !.userId = "u1"]}
TimeHttpInputs == {StrokeClientT, [StrokeWide EXCEPT !.userId = "u1"]}

NextTime ==
    \/ Tick
    \/ Open(StoreSession)
    \/ WsIdentify(StoreSession, PeerIdentify, "hsl(0, 80%, 60%)")
    \/ \E f \in TimeWsInputs, ok \in BOOLEAN :
          Len(rows) + RawTiles(f) <= StoreMaxRows /\ WsStroke(StoreSession, f, 1, ok)
    \/ \E raw \in TimeHttpInputs, ok \in BOOLEAN :
          Len(rows) + RawTiles(raw) <= StoreMaxRows /\ HttpStroke(raw, 1, ok)

SpecTime == InitChannel /\ [][NextTime]_vars

\* Broadcasts while connections break: peers that move their cursors, draw
\* and leave.
SendPresenceInputs == {p \in ChanPresenceInputs : p.id = "zz"}

NextSend ==
    \/ \E s \in Sessions : Open(s)
    \/ \E s \in Sessions : WsIdentify(s, PeerIdentify, "hsl(0, 80%, 60%)")
    \/ \E s \in Sessions : Break(s)
    \/ \E s \in Sessions, p \in SendPresenceInputs : WsPresence(s, p)
    \/ \E s \in Sessions, f \in ChanStrokeInputs :
          Len(rows) < ChanMaxRows /\ WsStroke(s, f, 1, TRUE)
    \/ \E s \in Sessions : Close(s)

SpecSend == InitChannel /\ [][NextSend]_vars

\* Cursors and names: peers that send presence frames with and without
\* coordinates, names and colours.
NextPresence ==
    \/ \E s \in Sessions : Open(s)
    \/ \E s \in Sessions : WsIdentify(s, PeerIdentify, "hsl(0, 80%, 60%)")
    \/ \E s \in Sessions, p \in PresenceInputs : WsPresence(s, p)
    \/ \E s \in Sessions : Close(s)

SpecPresence == InitChannel /\ [][NextPresence]_vars

\* The parse and dispatch of frames: connections that identify by text frames
\* and send frames of every kind.
NextFrames ==
    \/ \E s \in Sessions : Open(s)
    \/ \E s \in Sessions, f \in FrameInputs : WsFrame(s, f)
    \/ \E s \in Sessions, p \in ChanPresenceInputs : WsPresence(s, p)
    \/ \E s \in Sessions : Close(s)

SpecFrames == InitChannel /\ [][NextFrames]_vars

\* Object frames that name a type and carry no payload: {"type": "presence"}
NoPayloadFrames ==
    {[json |-> "object", type |-> "presence"],
     [json |-> "object", type |-> "stroke"],
     [json |-> "object", type |-> "tilesRequest"]}

\* websocket.message for an object frame without a payload (lines 198,
\* 215-249).  From a peer, a presence frame skips the three guarded updates
\* and a stroke frame starts its canonical form; both then read payload.id of
\* undefined and the handler ends with a TypeError.  A tilesRequest reads its
\* fields with ?. and answers a tiles connection with [6, null].
WsNoPayload(s, frame) ==
    /\ IsOpen(s)
    /\ frame.json = "object"
    /\ LET type == FrameType(frame) IN
       /\ type \in {"presence", "stroke", "tilesRequest"}
       /\ sent' = IF type = "tilesRequest" /\ Role(s) = "tiles" /\ ~SendThrows(s)
                  THEN [NoFrames EXCEPT ![s] = <<TileBatchDoneFrame(Null)>>]
                  ELSE NoFrames
       /\ last' = [ev |-> IF type \in {"presence", "stroke"} /\ Role(s) = "peer"
                          THEN "frameError" ELSE "frame",
                   s |-> s, frame |-> frame]
    /\ resp' = NoResp
    /\ UNCHANGED <<rows, now, uuids, sess, clients, worker, page>>

\* Frames without a payload, among connections that identify and peers that
\* send presence.
NextNoPayload ==
    \/ \E s \in Sessions : Open(s)
    \/ \E s \in Sessions, f \in IdentifyInputs : WsIdentify(s, f, "hsl(0, 80%, 60%)")
    \/ \E s \in Sessions, f \in NoPayloadFrames : WsNoPayload(s, f)
    \/ \E s \in Sessions, p \in ChanPresenceInputs : WsPresence(s, p)
    \/ \E s \in Sessions : Close(s)

SpecNoPayload == InitChannel /\ [][NextNoPayload]_vars

-----------------------------------------------------------------------------
(* The tile worker *)

InCache(cache, key) == \E i \in DOMAIN cache : cache[i] = key

\* cacheStrokes (part_004 lines 291-303): at TILE_CACHE_MAX entries the oldest
\* go, then Map.set keeps the place of a key that is there and appends a new one
cacheStrokes(cache, key) ==
    LET drop == IF Len(cache) >= TILE_CACHE_MAX THEN Len(cache) - TILE_CACHE_MAX + 1 ELSE 0
        kept == SubSeq(cache, drop + 1, Len(cache))
    IN IF InCache(kept, key) THEN kept ELSE Append(kept, key)

\* debouncedFetch (part_004 lines 308-327), up to the promise it returns:
\* clearTimeout of the entry the key has, which stops a timeout that has not
\* fired, then a new promise with its timeout, recorded under the key.
debouncedFetch(w, key) ==
    LET old == w.debouncedFetches[key]
        cleared == IF old # 0 /\ w.promises[old].st = "timer"
                   THEN [w.promises EXCEPT ![old].st = "cancelled"]
                   ELSE w.promises
    IN [w EXCEPT !.promises = Append(cleared, [key |-> key, st |-> "timer"]),
                 !.debouncedFetches[key] = Len(w.promises) + 1]

\* message FETCH_TILE_STROKES with id r (part_004 lines 114-166), up to its
\* first await: the answer from the cache, or the wait on the key's pending
\* promise, or a new debounced fetch recorded in pendingFetches.
handleFetchTileStrokes(r, key) ==
    /\ r \notin worker.requested
    /\ LET w == [worker EXCEPT !.requested = @ \cup {r}] IN
       worker' =
         IF InCache(w.tileCache, key)
         THEN [w EXCEPT !.results[r] = @ + 1]
         ELSE IF w.pendingFetches[key] # 0
         THEN [w EXCEPT !.awaiting[r] = [p |-> w.pendingFetches[key], owner |-> FALSE]]
         ELSE LET d == debouncedFetch(w, key) IN
              [d EXCEPT !.pendingFetches[key] = Len(d.promises),
                        !.awaiting[r] = [p |-> Len(d.promises), owner |-> TRUE]]
    /\ UNCHANGED <<serverVars, page>>

\* the timeout of promise p fires (part_004 lines 314-315): fetchFn starts
\* the GET of /api/tile-strokes
DebounceTimer(p) ==
    /\ p \in DOMAIN worker.promises
    /\ worker.promises[p].st = "timer"
    /\ worker' = [worker EXCEPT !.promises[p].st = "fetching"]
    /\ UNCHANGED <<serverVars, page>>

\* the GET of promise p ends (part_004 lines 150-164, 316-323, 168-184): with
\* a 200 the strokes are cached; the promise settles and the key's
\* debouncedFetches entry is deleted; every handler awaiting p broadcasts its
\* TILE_STROKES_RESULT, and the handler that set pendingFetches deletes the
\* key's entry.  These are microtasks of one turn of the event loop.
FetchSettles(p, ok) ==
    /\ p \in DOMAIN worker.promises
    /\ worker.promises[p].st = "fetching"
    /\ LET key == worker.promises[p].key
           waiters == {r \in RequestIds : worker.awaiting[r].p = p}
           owned == \E r \in waiters : worker.awaiting[r].owner
       IN worker' =
            [worker EXCEPT
               !.tileCache = IF ok THEN cacheStrokes(@, key) ELSE @,
               !.promises[p].st = IF ok THEN "resolved" ELSE "rejected",
               !.debouncedFetches[key] = 0,
               !.results = [r \in RequestIds |-> IF r \in waiters THEN @[r] + 1 ELSE @[r]],
               !.awaiting = [r \in RequestIds |->
                               IF r \in waiters THEN [p |-> 0, owner |-> FALSE] ELSE @[r]],
               !.pendingFetches[key] = IF owned THEN 0 ELSE @]
    /\ UNCHANGED <<serverVars, page>>

\* message CLEAR_CACHE (part_004 lines 248-253)
handleClearCache ==
    /\ worker.clears < MaxClears
    /\ worker' = [worker EXCEPT !.tileCache = << >>,
                                !.pendingFetches = [k \in TileKeys |-> 0],
                                !.clears = @ + 1]
    /\ UNCHANGED <<serverVars, page>>

NextWorker ==
    \/ \E r \in RequestIds, key \in TileKeys : handleFetchTileStrokes(r, key)
    \/ \E p \in 1..MaxRequests : DebounceTimer(p)
    \/ \E p \in 1..MaxRequests, ok \in BOOLEAN : FetchSettles(p, ok)
    \/ handleClearCache

SpecWorker == InitChannel /\ [][NextWorker]_vars

\* Timeouts that are set fire, and a GET that has started ends.
FairWorker ==
    /\ WF_vars(\E p \in 1..MaxRequests : DebounceTimer(p))
    /\ WF_vars(\E p \in 1..MaxRequests, ok \in BOOLEAN : FetchSettles(p, ok))

SpecWorkerFair == SpecWorker /\ FairWorker

-----------------------------------------------------------------------------
(* The page's stroke sender *)

\* the socket's open listener (part_002 line 866)
SocketOpen ==
    /\ ~page.wsReady
    /\ page' = [page EXCEPT !.wsReady = TRUE]
    /\ UNCHANGED <<serverVars, worker>>

\* the socket's close listener (part_002 line 880)
SocketClose ==
    /\ page.wsReady
    /\ page' = [page EXCEPT !.wsReady = FALSE]
    /\ UNCHANGED <<serverVars, worker>>

\* sendStroke (part_002 lines 844-855) for the page's next stroke k: ws.send
\* when wsReady, else the stroke joins the queue and the 200 ms timeout is
\* set anew.
sendStroke(k) ==
    /\ k = page.passed + 1
    /\ page' = IF page.wsReady
               THEN [page EXCEPT !.passed = k, !.channel = Append(@, k)]
               ELSE [page EXCEPT !.passed = k, !.queue = Append(@, k), !.timer = TRUE]
    /\ UNCHANGED <<serverVars, worker>>

\* sendStroke's timeout fires (part_002 lines 855-860): the last stroke of
\* the queue is POSTed and the queue emptied.
PersistTimer ==
    /\ page.timer
    /\ page' = [page EXCEPT !.posted = Append(@, page.queue[Len(page.queue)]),
                            !.queue = << >>,
                            !.timer = FALSE]
    /\ UNCHANGED <<serverVars, worker>>

NextPage ==
    \/ SocketOpen
    \/ SocketClose
    \/ \E k \in 1..MaxStrokes : sendStroke(k)
    \/ PersistTimer

SpecPage == InitChannel /\ [][NextPage]_vars

\* A timeout that is set fires.
SpecPageFair == SpecPage /\ WF_vars(PersistTimer)

\* The size of the store: strokes posted to an empty table, some with large
\* payloads, and the status endpoint.
StatusStrokeInputs == {StrokeOneTile, StrokeWide}

NextStatus ==
    \/ Tick
    \/ \E raw \in StatusStrokeInputs, ok \in BOOLEAN :
          Len(rows) + RawTiles(raw) <= CodecMaxRows /\ HttpStroke(raw, StorePages(raw), ok)
    \/ HttpDbStatus
    \/ \E q \in StoreQueryInputs : HttpTileStrokes(q)

SpecStatus == InitChannel /\ [][NextStatus]_vars

\* Reads and writes: strokes over both surfaces and every read operation,
\* from the empty table and from a table at the limit.
ReadBatchInputs == {b \in BatchInputs : Len(b.tiles) <= 3}

NextReads ==
    \/ Tick
    \/ Open(StoreSession)
    \/ \E f \in QueryIdentifyInputs : WsIdentify(StoreSession, f, "hsl(0, 80%, 60%)")
    \/ \E f \in ChanStrokeInputs, ok \in BOOLEAN :
          Len(rows) + RawTiles(f) <= StoreMaxRows /\ WsStroke(StoreSession, f, 1, ok)
    \/ \E raw \in StatusStrokeInputs, ok \in BOOLEAN :
          /\ Len(rows) + RawTiles(raw) <= StoreMaxRows
          /\ HttpStroke(raw, StorePages(raw), ok)
    \/ \E r \in ChanRequestInputs : WsTilesRequest(StoreSession, r)
    \/ \E q \in StoreQueryInputs : HttpTileStrokes(q)
    \/ \E b \in ReadBatchInputs : HttpBatch(b)
    \/ HttpDbStatus

SpecReads == Init /\ [][NextReads]_vars

\* The opacity of strokes over both surfaces.
NextOpacity ==
    \/ Tick
    \/ Open(StoreSession)
    \/ WsIdentify(StoreSession, PeerIdentify, "hsl(0, 80%, 60%)")
    \/ \E f \in OpacityInputs, ok \in BOOLEAN :
          Len(rows) < StoreMaxRows /\ WsStroke(StoreSession, f, 1, ok)
    \/ \E raw \in OpacityInputs, ok \in BOOLEAN :
          Len(rows) < StoreMaxRows /\ HttpStroke(raw, 1, ok)
    \/ \E q \in StoreQueryInputs : HttpTileStrokes(q)

SpecOpacity == InitChannel /\ [][NextOpacity]_vars

\* The size check: strokes posted to a table that starts at the limit.
EvictStrokeInputs == {StrokeOneTile, StrokeWide, StrokeEmpty}

InitEvict ==
    /\ rows = FullTable
    /\ now = 1
    /\ uuids = 0
    /\ sess = [s \in Sessions |-> [st |-> "new", data |-> NoData]]
    /\ clients = << >>
    /\ sent = NoFrames
    /\ resp = NoResp
    /\ last = [ev |-> "init"]
    /\ worker = InitWorker
    /\ page = InitPage

NextEvict ==
    \/ Tick
    \/ \E raw \in EvictStrokeInputs, ok \in BOOLEAN :
          /\ Cardinality({k \in DOMAIN rows : rows[k].t > 0}) + RawTiles(raw) <= EvictNewRows
          /\ HttpStroke(raw, StorePages(raw), ok)
    \/ HttpDbStatus

SpecEvict == InitEvict /\ [][NextEvict]_vars

-----------------------------------------------------------------------------
(* Properties of the channel *)

CountOp(frames, op) == Cardinality({i \in DOMAIN frames : frames[i].op = op})

\* connection s is the value of some entry of the Map
InRegistry(s) == \E i \in DOMAIN clients : clients[i].ws = s

\* C1: a stroke frame handled for peer session S is sent exactly once to
\* every other peer session in the registry and never to S itself.
C1_BroadcastExclusion ==
    last.ev = "stroke" =>
        \A s2 \in Sessions :
            IF s2 = last.s THEN CountOp(sent[s2], 2) = 0
            ELSE (InRegistry(s2) /\ IsOpen(s2) /\ Role(s2) = "peer")
                    => CountOp(sent[s2], 2) = 1

C7_RoleSetOnce ==
    [][ \A s \in Sessions :
          (IsOpen(s) /\ Role(s) \in {"peer", "tiles"})
             => /\ sess'[s].data.role = Role(s)
                /\ DataId(sess'[s].data) = DataId(sess[s].data) ]_vars

-----------------------------------------------------------------------------
(* Properties of the store *)

\* the tiles and clock values the properties range over
TileRange == (-2)..2
ZRange == {0, 1}
SinceRange == 0..(MaxClock + 1)

IsIngest(l) == l.ev \in {"stroke", "httpStroke"}

\* the ingest recorded in l committed its rows
Committed(l) == ~InsertFails(l.stroke, l.dbOk) /\ FinitePoints(l.stroke.points) # {}

TileSet(tiles) == {tiles[k] : k \in DOMAIN tiles}

NonDecreasingT(strokes) ==
    \A i, j \in DOMAIN strokes : i < j => strokes[i].t <= strokes[j].t

\* The footprint as C2 words it: pad = 2 * clamp(size, 1, 128), min and max
\* over the finite points.
ClaimFootprint(stroke) ==
    LET F == {i \in DOMAIN stroke.points :
                 IsNum(stroke.points[i].x) /\ IsNum(stroke.points[i].y)}
        xs == {stroke.points[i].x.num : i \in F}
        ys == {stroke.points[i].y.num : i \in F}
        pad == 2 * clamp(stroke.size, 1, 128)
    IN {[tx |-> tx, ty |-> ty] : tx \in TileRange, ty \in TileRange} \cap
       {t \in [tx : TileRange, ty : TileRange] :
          /\ \A x \in xs : t.tx >= (SetMin(xs) - pad) \div 1024
          /\ \A x \in xs : t.tx <= (SetMax(xs) + pad - 1) \div 1024
          /\ \A y \in ys : t.ty >= (SetMin(ys) - pad) \div 1024
          /\ \A y \in ys : t.ty <= (SetMax(ys) + pad - 1) \div 1024}

\* C2: after a stroke with at least one finite point is ingested (its id not
\* in the table before), readTileStrokes returns an entry with its id for
\* exactly the tiles of the footprint the claim words.
C2_FanOut ==
    (IsIngest(last) /\ Committed(last) /\ ~last.dup) =>
        \A tx \in TileRange, ty \in TileRange :
            LET scan == readTileStrokes(rows, last.stroke.z, tx, ty, NoSince) IN
            (\E i \in DOMAIN scan : scan[i].id = last.stroke.id)
               <=> ([tx |-> tx, ty |-> ty] \in ClaimFootprint(last.stroke))

\* C2 witness: a stroke with a non-finite point and the default size was
\* ingested into two tiles.
C2_Witness ==
    /\ IsIngest(last) /\ Committed(last) /\ ~last.dup
    /\ Cardinality(FinitePoints(last.stroke.points)) < Len(last.stroke.points)
    /\ Cardinality(ClaimFootprint(last.stroke)) = 2
    /\ Cardinality({i \in DOMAIN rows : rows[i].id = last.stroke.id}) = 2

\* The footprint of a stored stroke: JSON wrote its non-finite coordinates as
\* null, which are not numbers here.
StoredFootprint(json) ==
    TileSet(StrokeTiles([json EXCEPT !.points =
        [i \in DOMAIN json.points |->
            [x |-> IF IsNum(json.points[i].x) THEN json.points[i].x ELSE NaN,
             y |-> IF IsNum(json.points[i].y) THEN json.points[i].y ELSE NaN,
             p |-> json.points[i].p]]]))

\* C3: in every state, a stroke that a scan of one of its footprint tiles
\* returns is returned by the scan of each of its other footprint tiles.
C3_Atomicity ==
    \A i \in DOMAIN rows :
        \A tile \in StoredFootprint(rows[i].json) :
            LET scan == readTileStrokes(rows, Num(rows[i].z), tile.tx, tile.ty, NoSince)
            IN \E k \in DOMAIN scan : scan[k] = rows[i].json

\* C4: one ingest writes, after the rows the size check kept, rows that all
\* carry the stroke's t and id, one for every footprint tile or none at all.
C4_AtomicFanOut ==
    [][ IsIngest(last') =>
          LET S == last'.stroke
              keptLen == Len(rows) - last'.evicted
              new == SubSeq(rows', keptLen + 1, Len(rows'))
          IN /\ Len(rows') >= keptLen
             /\ \A i \in DOMAIN new : new[i].t = S.t /\ new[i].id = S.id
             /\ \/ new = << >>
                \/ /\ Len(new) = Len(StrokeTiles(S))
                   /\ {[tx |-> new[i].tx, ty |-> new[i].ty] : i \in DOMAIN new}
                         = TileSet(StrokeTiles(S))
             /\ Committed(last') => new # << >> ]_vars

\* C4 witness: a two-tile stroke was committed and the table ends with its
\* two rows.
C4_Witness ==
    /\ IsIngest(last) /\ Committed(last)
    /\ Len(StrokeTiles(last.stroke)) = 2
    /\ Len(rows) >= 2
    /\ rows[Len(rows)].id = last.stroke.id /\ rows[Len(rows) - 1].id = last.stroke.id
    /\ rows[Len(rows)].tx # rows[Len(rows) - 1].tx

\* C5: readTileStrokes returns strokes in non-decreasing t, and with a since
\* value exactly those of them with t > since, in the same order.
C5_TemporalOrder ==
    \A z \in ZRange, tx \in TileRange, ty \in TileRange :
        LET all == readTileStrokes(rows, Num(z), tx, ty, NoSince) IN
        /\ NonDecreasingT(all)
        /\ \A t0 \in SinceRange :
              readTileStrokes(rows, Num(z), tx, ty, Num(t0))
                 = SelectSeq(all, LAMBDA st : st.t > t0)

\* C5 witness: tile (0,0) holds rows whose t is not in rowid order, and a read
\* with since = 1 returned some but not all of its strokes.
C5_Witness ==
    /\ last.ev = "httpTile" /\ last.q.since = Num(1)
    /\ resp.status = 200 /\ Len(resp.strokes) >= 1
    /\ Len(readTileStrokes(rows, Num(0), 0, 0, NoSince)) > Len(resp.strokes)
    /\ \E i, j \in DOMAIN rows : i < j /\ rows[i].t > rows[j].t /\ rows[i].tx = 0 /\ rows[j].tx = 0

\* C10: an eviction deletes rows of globally smallest t: the rows kept are the
\* table without a set of rows none of which is newer than a kept row, and
\* every tile's remaining rows are still returned in non-decreasing t.
C10_EvictOldest ==
    [][ (IsIngest(last') /\ last'.evicted > 0) =>
          LET n == last'.evicted
              all == 1..Len(rows)
              kept == SubSeq(rows', 1, Len(rows) - n)
          IN /\ \E D \in SUBSET all :
                   /\ Cardinality(D) = n
                   /\ kept = KeepRows(rows, all \ D, 1)
                   /\ \A i \in D : \A j \in all \ D : rows[i].t <= rows[j].t
             /\ \A z \in ZRange, tx \in TileRange, ty \in TileRange :
                   NonDecreasingT(readTileStrokes(kept, Num(z), tx, ty, NoSince)) ]_vars

\* C10 witness: an eviction deleted the older of two rows, which had the
\* larger rowid; the newer row is kept.
C10_Witness ==
    /\ IsIngest(last) /\ last.evicted = 1
    /\ rows # << >> /\ rows[1].id = "o2"

-----------------------------------------------------------------------------
(* Properties of the tile queries *)

\* the last handler served a tilesRequest of a tiles session
ServedRequest == last.ev = "tilesRequest" /\ Role(last.s) = "tiles"

\* the frames of the request are one tileData frame per valid tile of the
\* request, in request order, then one tileBatchDone frame
OneFramePerValidTile(frames, req) ==
    LET valid == SelectSeq(req.tiles, ValidTile)
        n == Len(frames)
    IN /\ CountOp(frames, 6) = 1
       /\ n = Len(valid) + 1
       /\ frames[n].op = 6
       /\ \A i \in 1..Len(valid) :
             /\ frames[i].op = 4
             /\ Num(frames[i].tx) = ToNumber(valid[i].tx)
             /\ Num(frames[i].ty) = ToNumber(valid[i].ty)

\* C8 as stated: every tilesRequest of a tiles session is answered by one
\* tileData frame per valid requested tile, in request order, followed by
\* exactly one tileBatchDone frame, the last frame of the request.
C8_BatchCompletion ==
    ServedRequest => OneFramePerValidTile(sent[last.s], last.req)

\* C8 amended: the same for every tilesRequest of at most 1000 tiles.
C8_BatchCompletionWithinCap ==
    (ServedRequest /\ Len(last.req.tiles) <= 1000)
        => OneFramePerValidTile(sent[last.s], last.req)

\* C8 witness: a request of four tiles, one of them not valid, was answered
\* with three tileData frames, one with strokes and one without, and the done
\* frame.
C8_Witness ==
    /\ ServedRequest
    /\ Len(last.req.tiles) = 4
    /\ Len(sent[last.s]) = 4
    /\ \E i, j \in 1..3 : sent[last.s][i].strokes = << >> /\ sent[last.s][j].strokes # << >>

\* C9: a tilesRequest of more than 1000 tiles is answered with exactly one
\* tileBatchDone frame and no tileData frame, an HTTP batch of more than 500
\* tiles with status 400 and no tile data; requests of exactly 1000 and
\* exactly 500 tiles are served, one tileData frame or one entry per tile.
C9_CapEnforcement ==
    /\ ServedRequest =>
          LET n == Len(last.req.tiles)
              fr == sent[last.s]
          IN /\ n > 1000 => CountOp(fr, 6) = 1 /\ CountOp(fr, 4) = 0 /\ Len(fr) = 1
             /\ n = 1000 => CountOp(fr, 6) = 1 /\ CountOp(fr, 4) = 1000 /\ fr[Len(fr)].op = 6
    /\ last.ev = "httpBatch" =>
          /\ last.n > 500 => resp.status = 400 /\ "tiles" \notin DOMAIN resp
          /\ last.n = 500 => resp.status = 200 /\ Len(resp.tiles) = 500

\* C9 witness: a tilesRequest of 1001 tiles from a tiles session was answered
\* with a single frame while the table holds strokes of the requested tiles.
C9_Witness ==
    /\ ServedRequest
    /\ Len(last.req.tiles) = 1001
    /\ Len(sent[last.s]) = 1
    /\ readTileStrokes(rows, Num(0), 0, 0, NoSince) # << >>

-----------------------------------------------------------------------------
(* Properties of the size limit *)

\* C11: the store's size is at most MAX_DB_SIZE_BYTES in every state, and
\* the utilizationPercent that GET /api/db-status reports is within 0..100.
C11_SizeWithinLimit ==
    /\ DbPageCount(rows) * PAGE_SIZE <= MAX_DB_SIZE_BYTES
    /\ last.ev = "httpDbStatus" =>
          resp.utilizationPercent >= 0 /\ resp.utilizationPercent <= 100

-----------------------------------------------------------------------------
(* Properties of the relay and of the acknowledgement *)

\* some connection was sent a stroke frame by the last handler
StrokeRelayed == \E s2 \in Sessions : CountOp(sent[s2], 2) > 0

\* every footprint tile of the stroke returns an entry with the stroke's id
InAllItsTiles(stroke) ==
    \A tile \in TileSet(StrokeTiles(stroke)) :
        LET scan == readTileStrokes(rows, stroke.z, tile.tx, tile.ty, NoSince)
        IN \E k \in DOMAIN scan : scan[k].id = stroke.id

\* C12: when a stroke frame for stroke X has been sent to a session, a scan
\* of each footprint tile of X returns X.
C12_RelayAfterCommit ==
    (last.ev = "stroke" /\ StrokeRelayed) => InAllItsTiles(last.stroke)

\* C13: when the insert of a peer's stroke fails, appendStrokeToTiles returns
\* the empty tile list and no stroke frame is sent to any session.
C13_FailedInsertNotRelayed ==
    (last.ev = "stroke" /\ FinitePoints(last.stroke.points) # {}
        /\ InsertFails(last.stroke, last.dbOk))
      => last.tiles = << >> /\ ~StrokeRelayed

\* C14: POST /api/stroke answers ok: true only when the rows of the stroke
\* are in the table.
C14_AckOnlyAfterCommit ==
    (last.ev = "httpStroke" /\ resp.status = 200 /\ resp.ok)
        => InAllItsTiles(last.stroke)

-----------------------------------------------------------------------------
(* Properties of strokes without a finite point *)

\* C15: an ingest of a stroke with a finite point whose insert is not refused
\* adds at least one row; an ingest of a stroke whose points are empty or all
\* non-finite adds no row and deletes none.
C15_RowsOnlyForFinitePoints ==
    [][ IsIngest(last') =>
          IF FinitePoints(last'.stroke.points) # {}
          THEN ~InsertFails(last'.stroke, last'.dbOk) =>
                  /\ Len(rows') >= Len(rows) - last'.evicted + 1
                  /\ rows'[Len(rows')].id = last'.stroke.id
          ELSE rows' = rows ]_vars

\* C15 witness: a stroke whose only point is not finite was handled while the
\* table was at the size limit, and the table still holds its rows.
C15_Witness ==
    /\ last.ev = "stroke"
    /\ Len(last.stroke.points) = 1 /\ FinitePoints(last.stroke.points) = {}
    /\ DbAtLimit(rows)
    /\ Len(rows) = 2

\* C16: a stroke frame of a peer whose points are empty or all non-finite is
\* not broadcast: no connection is sent a stroke frame for it.
C16_NoPointsNotBroadcast ==
    (last.ev = "stroke" /\ FinitePoints(last.stroke.points) = {})
        => \A s2 \in Sessions : CountOp(sent[s2], 2) = 0

-----------------------------------------------------------------------------
(* Properties of the registry *)

\* connection s2 is an open peer connection held by the registry
RegisteredPeer(s2) == InRegistry(s2) /\ IsOpen(s2) /\ Role(s2) = "peer"

\* C17: when the connection of a peer session has closed, the registry holds
\* neither its id nor the connection, and every other peer session in the
\* registry has been sent exactly one frame, the leave frame with that id.
C17_LeaveOnClose ==
    (last.ev = "close" /\ Role(last.s) = "peer") =>
        LET id == DataId(sess[last.s].data) IN
        /\ \A i \in DOMAIN clients : clients[i].id # id
        /\ ~InRegistry(last.s)
        /\ \A s2 \in Sessions \ {last.s} :
              RegisteredPeer(s2) => sent[s2] = <<LeaveFrame(id)>>

\* C18: a session whose role is tiles is not in the registry, is sent no
\* welcome, presence, stroke or leave frame and is in no welcome snapshot, and
\* its close sends no leave frame.
C18_TilesOutsideRegistry ==
    \A s \in Sessions :
        Role(s) = "tiles" =>
            /\ ~InRegistry(s)
            /\ \A op \in {1, 2, 5, 7} : CountOp(sent[s], op) = 0
            /\ \A s2 \in Sessions : \A i \in DOMAIN sent[s2] :
                  sent[s2][i].op = 5 =>
                      \A k \in DOMAIN sent[s2][i].others :
                          sent[s2][i].others[k].id # DataId(sess[s].data)
            /\ (last.ev = "close" /\ last.s = s) =>
                  \A s2 \in Sessions : CountOp(sent[s2], 7) = 0

\* C19: after an identify as peer the session has been sent exactly one
\* frame, a welcome with its new id; no other connection is registered under
\* that id; its cursor is (0,0); the snapshot lists, with their cursors,
\* exactly the other peer sessions in the registry, and not the session.
C19_Welcome ==
    (last.ev = "identify" /\ last.role = "peer") =>
        LET s == last.s
            d == sess[s].data
            fr == sent[s]
            peers == {s2 \in Sessions \ {s} : RegisteredPeer(s2)}
        IN /\ Len(fr) = 1 /\ fr[1].op = 5 /\ fr[1].id = d.id
           /\ \A i \in DOMAIN clients : clients[i].id = d.id => clients[i].ws = s
           /\ \A s2 \in Sessions \ {s} : DataId(sess[s2].data) # d.id
           /\ d.x = 0 /\ d.y = 0
           /\ Len(fr[1].others) = Cardinality(peers)
           /\ {fr[1].others[k] : k \in DOMAIN fr[1].others}
                 = {[id |-> sess[s2].data.id, x |-> sess[s2].data.x,
                     y |-> sess[s2].data.y] : s2 \in peers}

\* C20: a presence frame handled for peer session S is sent exactly once to
\* every other peer session in the registry and never to S.
C20_PresenceExclusion ==
    (last.ev = "presence" /\ Role(last.s) = "peer") =>
        \A s2 \in Sessions :
            IF s2 = last.s THEN CountOp(sent[s2], 1) = 0
            ELSE RegisteredPeer(s2) => CountOp(sent[s2], 1) = 1

-----------------------------------------------------------------------------
(* Properties of the codec *)

\* every point of the stroke has finite x and y
AllPointsFinite(stroke) ==
    \A i \in DOMAIN stroke.points :
        IsNum(stroke.points[i].x) /\ IsNum(stroke.points[i].y)

\* the (x, y) pairs of a list of points
XY(points) == [i \in DOMAIN points |-> <<points[i].x, points[i].y>>]

\* the entries with the stroke's id that a scan of the tile returns
ScannedBack(stroke, tile) ==
    SelectSeq(readTileStrokes(rows, stroke.z, tile.tx, tile.ty, NoSince),
              LAMBDA e : e.id = stroke.id)

\* C21: a stroke with finite points whose ingest committed (under an id not
\* stored before) is returned by the scan of each footprint tile with the id,
\* userId, color, size, opacity, erase, z and points it was ingested with; the
\* stroke of the frame [2, "sid", "uid", "#000", 4, 1, 0, [0,0, 10,0, 10,10]]
\* reads back with points (0,0), (10,0), (10,10), size 4, opacity 1, erase
\* false.
C21_RoundTrip ==
    (IsIngest(last) /\ Committed(last) /\ ~last.dup) =>
        \A tile \in TileSet(StrokeTiles(last.stroke)) :
            LET back == ScannedBack(last.stroke, tile)
                S == last.stroke
            IN /\ Len(back) = 1
               /\ AllPointsFinite(S) =>
                     /\ back[1].id = S.id /\ back[1].userId = S.userId
                     /\ back[1].color = S.color /\ back[1].size = S.size
                     /\ back[1].opacity = S.opacity /\ back[1].erase = S.erase
                     /\ back[1].z = S.z /\ back[1].points = S.points
               /\ S.id = "sid" =>
                     /\ XY(back[1].points) = << <<Num(0), Num(0)>>, <<Num(10), Num(0)>>,
                                                <<Num(10), Num(10)>> >>
                     /\ back[1].size = 4 /\ back[1].opacity = 1
                     /\ back[1].erase = FALSE /\ back[1].userId = "uid"

\* C21 witness: the stroke of scenario 6 was ingested over the channel and
\* the scan of tile (-1,-1) returns it.
C21_Witness ==
    /\ last.ev = "stroke" /\ Committed(last) /\ ~last.dup
    /\ last.stroke.id = "sid"
    /\ Len(ScannedBack(last.stroke, [tx |-> -1, ty |-> -1])) = 1

\* the rows of the table that carry the id
RowsOf(rs, id) == {k \in DOMAIN rs : rs[k].id = id}

\* C24: the t of an ingested stroke, in its rows and in its payload, is the
\* clock at the ingest, over the channel and over POST /api/stroke; the same
\* submission with another client-supplied t leads to the same state.
C24_ServerTime ==
    [][ /\ (IsIngest(last') /\ Committed(last') /\ ~last'.dup) =>
              /\ last'.stroke.t = now'
              /\ RowsOf(rows', last'.stroke.id) # {}
              /\ \A k \in RowsOf(rows', last'.stroke.id) :
                    rows'[k].t = now' /\ rows'[k].json.t = now'
        /\ \A raw \in TimeHttpInputs, ok \in BOOLEAN, t2 \in ClientTimes :
              HttpStroke(raw, 1, ok) => HttpStroke([raw EXCEPT !.t = t2], 1, ok)
        /\ \A f \in TimeWsInputs, ok \in BOOLEAN, t2 \in ClientTimes :
              WsStroke(StoreSession, f, 1, ok) =>
                  WsStroke(StoreSession, [f EXCEPT !.t = t2], 1, ok) ]_vars

\* C24 witness: the stroke that carries t = 7 was stored over HTTP after the
\* clock had advanced to 2, and its row has t = 2.
C24_Witness ==
    /\ last.ev = "httpStroke" /\ last.stroke.id = "ct"
    /\ Committed(last) /\ ~last.dup /\ now = 2
    /\ \E k \in DOMAIN rows : rows[k].id = "ct" /\ rows[k].t = 2

\* the x and y of a list of points, flat
RECURSIVE FlatXY(_)
FlatXY(points) ==
    IF points = << >> THEN << >>
    ELSE <<Head(points).x, Head(points).y>> \o FlatXY(Tail(points))

\* a compact stroke of a tileData frame shows what the stroke of an HTTP
\* response shows
SameStroke(compact, st) ==
    /\ compact.id = st.id /\ compact.color = st.color
    /\ compact.size = st.size /\ compact.opacity = st.opacity
    /\ (compact.erase = 1) = st.erase
    /\ compact.pts = FlatXY(st.points)

\* C25: on the same table and for the same tile, GET /api/tile-strokes, POST
\* /api/tile-strokes-batch and the tileData frame list the same strokes: the
\* same ids in the same order with the same color, size, opacity, erase and
\* point coordinates.
C25_SameRead ==
    ServedRequest =>
        \A i \in DOMAIN sent[last.s] :
            LET fr == sent[last.s][i] IN
            fr.op = 4 =>
                LET single == TileStrokesResponse(rows,
                                 [z |-> fr.z, tx |-> Num(fr.tx), ty |-> Num(fr.ty),
                                  since |-> Null])
                    batch == BatchResponse(rows, [z |-> fr.z, tiles |-> <<Tile(fr.tx, fr.ty)>>])
                IN /\ single.status = 200 /\ batch.status = 200
                   /\ batch.tiles[1].strokes = single.strokes
                   /\ Len(fr.strokes) = Len(single.strokes)
                   /\ \A k \in DOMAIN fr.strokes :
                         SameStroke(fr.strokes[k], single.strokes[k])

\* rows the size check deleted in the step: the rows before, plus the rows
\* the step inserted, minus the rows after
Deleted ==
    Len(rows) + (IF InsertFails(last'.stroke, last'.dbOk) THEN 0 ELSE Len(last'.tiles))
        - Len(rows')

\* the size of the table is at least the limit (both in pages of PAGE_SIZE
\* bytes; the limit is a whole number of pages)
AtLimit(rs) == 1 + SumPages(rs) >= MAX_DB_SIZE_BYTES \div PAGE_SIZE

\* C26: before the ingest of a stroke with a finite point, rows
\* are deleted if and only if the size is at least the limit, and then
\* exactly ceil(0.1 * row_count) of them.
C26_EvictCeilTenth ==
    [][ (IsIngest(last') /\ FinitePoints(last'.stroke.points) # {}) =>
           Deleted = IF AtLimit(rows) THEN (Len(rows) + 9) \div 10 ELSE 0 ]_vars

\* What the size check does: before the ingest of a stroke with a finite
\* point, rows are deleted if and only if the size is at least the limit, and
\* then exactly max(1, floor(0.1 * row_count)) of them.
EvictFloorTenth ==
    [][ (IsIngest(last') /\ FinitePoints(last'.stroke.points) # {}) =>
           Deleted = IF AtLimit(rows)
                     THEN (IF Len(rows) < 10 THEN 1 ELSE Len(rows) \div 10)
                     ELSE 0 ]_vars

\* An ingest into the full table of eleven or more rows deleted one of its
\* rows and added its own.
EvictedFromFullTable ==
    /\ IsIngest(last) /\ Committed(last) /\ last.stroke.id = "a"
    /\ Cardinality({k \in DOMAIN rows : rows[k].t <= 0}) = OldRowCount - 1
    /\ OldRowCount >= 11
    /\ Len(rows) = OldRowCount

\* C27: while the clock does not go back, a stroke accepted after others
\* (over the channel or over HTTP) has a t that is at least theirs, and the
\* scan of each of its tiles lists it after every stroke the tile held, also
\* after those of equal t, whose order it leaves as it was.
C27_AcceptanceOrder ==
    [][ (IsIngest(last') /\ Committed(last')) =>
           \A tile \in TileSet(last'.tiles) :
               LET before == readTileStrokes(rows, last'.stroke.z, tile.tx, tile.ty, NoSince)
                   after == readTileStrokes(rows', last'.stroke.z, tile.tx, tile.ty, NoSince)
               IN /\ after = Append(before, JsonOfStroke(last'.stroke))
                  /\ \A k \in DOMAIN before : before[k].t <= last'.stroke.t ]_vars

\* C27 witness: tile (0,0) holds two strokes of equal t, the one accepted over
\* the channel and then the one accepted over HTTP, listed in that order.
C27_Witness ==
    LET scan == readTileStrokes(rows, Num(0), 0, 0, NoSince) IN
    /\ last.ev = "httpStroke" /\ Committed(last)
    /\ Len(scan) >= 2
    /\ scan[Len(scan)].id = last.stroke.id
    /\ scan[Len(scan) - 1].id # last.stroke.id
    /\ scan[Len(scan) - 1].t = last.stroke.t
    /\ scan[Len(scan) - 1].userId = "u1"

C29_SendFailureSwallowed ==
    [][ (last'.ev \in {"presence", "stroke"} /\ Role(last'.s) = "peer") =>
           LET op == IF last'.ev = "presence" THEN 1 ELSE 2
               excludeId == IF op = 1 THEN last'.p.id ELSE last'.stroke.id
           IN /\ clients' = clients
              /\ op = 1 => rows' = rows
              /\ \A k \in DOMAIN clients :
                    (clients[k].id # excludeId /\ sess[clients[k].ws].st = "open") =>
                        CountOp(sent'[clients[k].ws], op) > 0 ]_vars

\* C29 witness: a presence frame was broadcast while the first entry of the
\* registry had a send that throws; a later entry was sent the frame.
C29_Witness ==
    /\ last.ev = "presence" /\ Role(last.s) = "peer"
    /\ Len(clients) >= 2
    /\ sess[clients[1].ws].st = "dead"
    /\ \E k \in 2..Len(clients) :
          clients[k].ws # clients[1].ws /\ CountOp(sent[clients[k].ws], 1) > 0

\* C30: every registered peer connection has a finite cursor (x, y) and a
\* name of at most 24 characters after every step, and a presence frame
\* changes (x, y) only when both its values are finite numbers, changes the
\* name or the colour only when the frame has one, and changes nothing else
\* of the connection's data and nothing of the other connections'.
C30_PresenceData ==
    [][ /\ \A k \in DOMAIN clients' :
              LET d == sess'[clients'[k].ws].data IN
              d.role = "peer" => d.x \in Int /\ d.y \in Int /\ d.name.len <= 24
        /\ (last'.ev = "presence" /\ Role(last'.s) = "peer") =>
              LET p == last'.p
                  d == sess[last'.s].data
                  d2 == sess'[last'.s].data
              IN /\ (d2.x # d.x \/ d2.y # d.y) => (IsNum(p.x) /\ IsNum(p.y))
                 /\ d2.name # d.name => "text" \in DOMAIN p.name
                 /\ d2.color # d.color => "str" \in DOMAIN p.color
                 /\ d2.id = d.id /\ d2.role = d.role
                 /\ \A s2 \in Sessions \ {last'.s} : sess'[s2] = sess[s2] ]_vars

\* C30 witness: a registered peer sent a frame with a finite x, no y and a
\* name of 31 characters: its cursor is where it was and its name has 24.
C30_Witness ==
    /\ last.ev = "presence" /\ RegisteredPeer(last.s)
    /\ IsNum(last.p.x) /\ ~IsNum(last.p.y)
    /\ sess[last.s].data.x = 0 /\ sess[last.s].data.y = 0
    /\ sess[last.s].data.name.len = 24
    /\ \E s2 \in Sessions \ {last.s} : RegisteredPeer(s2) /\ sess[s2].data.x = 5

-----------------------------------------------------------------------------
(* Properties of the dispatch *)

\* C22: the handling of a frame that is not JSON, is neither an object nor an
\* array, or is an array with an unknown opcode leaves every session, the
\* registry and the table as they were, sends nothing, and the connection
\* stays open.
C22_MalformedDropped ==
    [][ \A s \in Sessions, f \in MalformedFrames :
           WsFrame(s, f) =>
              /\ sess' = sess /\ clients' = clients /\ rows' = rows
              /\ sent' = NoFrames
              /\ sess'[s].st = "open" ]_vars

\* C22 witness: an array frame with an unknown opcode was handled for a
\* registered peer while another peer is registered.
C22_Witness ==
    /\ last.ev = "frame"
    /\ last.frame \in MalformedFrames /\ last.frame.json = "array"
    /\ RegisteredPeer(last.s)
    /\ \E s2 \in Sessions \ {last.s} : RegisteredPeer(s2)

-----------------------------------------------------------------------------
(* Properties of the HTTP tile read *)

\* C23: GET /api/tile-strokes answers 400 without a scan whenever tx or ty is
\* missing or is not a finite number, and otherwise answers 200 with the
\* (z, tx, ty) of the request and the strokes of that tile.
C23_TileStrokesValidation ==
    last.ev = "httpTile" =>
        LET q == last.q
            z == ToNumber(IF q.z = Null THEN Num(Z) ELSE q.z)
        IN IF \/ q.tx = Null \/ q.ty = Null
              \/ ~IsFinite(ToNumber(q.tx)) \/ ~IsFinite(ToNumber(q.ty))
           THEN resp.status = 400 /\ "strokes" \notin DOMAIN resp
           ELSE /\ resp.status = 200
                /\ resp.z = JsonNumber(z)
                /\ resp.tx = ToNumber(q.tx).num /\ resp.ty = ToNumber(q.ty).num
                /\ resp.strokes =
                      readTileStrokes(rows, z, resp.tx, resp.ty,
                                      IF q.since = Null THEN NoSince
                                      ELSE ToNumber(q.since))

-----------------------------------------------------------------------------
(* Properties of the two ingest surfaces *)

\* C31: a stroke accepted over POST /api/stroke is in the scan of each of its
\* footprint tiles and no frame is sent to any connection for it; a stroke
\* frame is sent only within the handling of a stroke frame of a peer.
C31_HttpNotRelayed ==
    /\ last.ev = "httpStroke" =>
          /\ \A s \in Sessions : sent[s] = << >>
          /\ Committed(last) => InAllItsTiles(last.stroke)
    /\ StrokeRelayed => (last.ev = "stroke" /\ Role(last.s) = "peer")

\* C31 witness: a stroke posted over HTTP was stored in two tiles while a
\* peer connection is registered.
C31_Witness ==
    /\ last.ev = "httpStroke" /\ Committed(last)
    /\ Len(last.tiles) = 2 /\ InAllItsTiles(last.stroke)
    /\ RegisteredPeer(StoreSession)

\* rs is the beginning of rs2
IsPrefix(rs, rs2) == Len(rs) <= Len(rs2) /\ SubSeq(rs2, 1, Len(rs)) = rs

\* every row of rs2 is a row of rs, in the same order
RECURSIVE IsSubSeq(_, _)
IsSubSeq(rs2, rs) ==
    IF rs2 = << >> THEN TRUE
    ELSE IF rs = << >> THEN FALSE
    ELSE IF Head(rs2) = Head(rs) THEN IsSubSeq(Tail(rs2), Tail(rs))
    ELSE IsSubSeq(rs2, Tail(rs))

\* C32: stored rows are never changed: an ingest that triggers no eviction
\* keeps every row that was stored, as it was; the single-tile read, the
\* batch read, a tilesRequest and db-status leave the table and the registry
\* as they were; rows go only in the eviction of an ingest made at the size
\* limit, and the rows that stay are unchanged.
C32_RowsImmutable ==
    [][ /\ (IsIngest(last')
               /\ ~(AtLimit(rows) /\ FinitePoints(last'.stroke.points) # {}))
              => IsPrefix(rows, rows')
        /\ last'.ev \in {"httpTile", "httpBatch", "tilesRequest", "httpDbStatus"}
              => (rows' = rows /\ clients' = clients)
        /\ ~IsPrefix(rows, rows') =>
              /\ IsIngest(last') /\ AtLimit(rows)
              /\ IsSubSeq(SubSeq(rows', 1, Len(rows) - Deleted), rows) ]_vars

\* C32 witness: the table holds a stroke twice, stored by two ingests of the
\* same id at different times, and a read has just been answered.
C32_Witness ==
    /\ last.ev \in {"httpTile", "httpBatch", "tilesRequest", "httpDbStatus"}
    /\ \E i, j \in DOMAIN rows :
          i < j /\ rows[i].id = rows[j].id /\ rows[i].t < rows[j].t
             /\ rows[i].tx = rows[j].tx

\* clamp(v, 0, 1) of a finite number, 1 for a missing or non-finite value
ClaimedOpacity(v) == IF IsNum(v) THEN clamp(v.num, 0, 1) ELSE 1

\* C33: the opacity of the stroke built from a payload, over POST /api/stroke
\* and over the channel, is clamp(input, 0, 1) for every finite number, 0 for
\* an input of 0, and 1 only for a missing or non-finite input.
C33_CanonOpacity ==
    [][ /\ \A raw \in OpacityInputs, ok \in BOOLEAN :
              HttpStroke(raw, 1, ok) =>
                  last'.stroke.opacity = ClaimedOpacity(raw.opacity)
        /\ \A f \in OpacityInputs, ok \in BOOLEAN :
              (WsStroke(StoreSession, f, 1, ok) /\ Role(StoreSession) = "peer") =>
                  last'.stroke.opacity = ClaimedOpacity(f.opacity) ]_vars

-----------------------------------------------------------------------------
(* Properties of the request ids *)

\* C34: every tileData and tileBatchDone frame sent for a tilesRequest carries
\* the reqId of the request as the client wrote it, also when it is 0 or the
\* empty string.
C34_ReqIdEcho ==
    ServedRequest =>
        \A i \in DOMAIN sent[last.s] :
            sent[last.s][i].op \in {4, 6} => sent[last.s][i].reqId = last.req.reqId

-----------------------------------------------------------------------------
(* Properties of frames without a payload *)

\* C35: the handler of a presence or stroke frame that has no payload ends
\* without an error and changes neither the store nor a session nor the
\* registry.
C35_NoPayloadNoError ==
    [][\A s \in Sessions, f \in NoPayloadFrames :
          (WsNoPayload(s, f) /\ f.type \in {"presence", "stroke"}) =>
              /\ last'.ev # "frameError"
              /\ rows' = rows /\ sess' = sess /\ clients' = clients]_vars

-----------------------------------------------------------------------------
(* Properties of the registry *)

\* C36: the registry holds exactly one entry for every open session whose
\* role is peer, under the id the session has now, and every entry is the
\* current id of an open session.
C36_RegistryExact ==
    /\ \A s \in Sessions :
          (IsOpen(s) /\ Role(s) = "peer") =>
              /\ Cardinality({i \in DOMAIN clients : clients[i].ws = s}) = 1
              /\ \E i \in DOMAIN clients :
                    clients[i].ws = s /\ clients[i].id = DataId(sess[s].data)
    /\ \A i \in DOMAIN clients :
          /\ IsOpen(clients[i].ws)
          /\ clients[i].id = DataId(sess[clients[i].ws].data)

\* C37: every presence frame a handler sends carries the id the server
\* minted for the session whose presence frame is being handled.
C37_PresenceIdMinted ==
    \A s2 \in Sessions : \A i \in DOMAIN sent[s2] :
        sent[s2][i].op = 1 =>
            /\ last.ev = "presence"
            /\ sent[s2][i].id = DataId(sess[last.s].data)

-----------------------------------------------------------------------------
(* Properties of the page *)

\* C38: every FETCH_TILE_STROKES request is answered by one
\* TILE_STROKES_RESULT with its id, and never by two, whatever further
\* requests and CLEAR_CACHE messages arrive.
C38_RequestAnsweredOnce ==
    \A r \in RequestIds :
        /\ [](worker.results[r] <= 1)
        /\ (r \in worker.requested) ~> (worker.results[r] = 1)

\* how often stroke k has been given to ws.send or POSTed
Submitted(k) ==
    Cardinality({i \in DOMAIN page.channel : page.channel[i] = k})
      + Cardinality({i \in DOMAIN page.posted : page.posted[i] = k})

\* C39: every stroke given to sendStroke is submitted once, by ws.send or by
\* a POST, and never twice.
C39_StrokeSubmittedOnce ==
    \A k \in 1..MaxStrokes :
        /\ [](Submitted(k) <= 1)
        /\ (page.passed >= k) ~> (Submitted(k) = 1)

=============================================================================
